---- MODULE Spec2Model ----
(***************************************************************************)
(* Execution orchestration engine of the mom service:                      *)
(*   - DefaultExecutionRunner.executePlan (wavefront step runner)          *)
(*   - FileQueuePiBridgeClient.request and the bridge worker extension     *)
(*   - MomRunService.handleEvent (confirmation gate, run coordinator)      *)
(*   - ChannelQueue (per-channel sequencer of SlackBot)                    *)
(* Strings are represented by their length (JavaScript .length) wherever   *)
(* the code only measures them; a text that is compared or returned also   *)
(* carries a tag naming where it came from.                                *)
(***************************************************************************)
EXTENDS Integers, Sequences, FiniteSets, TLC

\* ------------------------------------------------------------------ bounds
MaxSteps == 3          \* largest number of steps of a generated plan
MaxQueued == 3         \* work items submitted per channel
MaxSubmitted == 7      \* work items submitted to all channels when queues fill up
MaxTicks == 3          \* the clock stops after this many poll intervals
TimeoutPolls == 2      \* timeoutMs of the client, in poll intervals
LowRiskTimeoutPolls == 1  \* budget.timeoutMs of a low-risk card, in poll intervals
MaxEvents == 3         \* Slack events delivered to handleEvent
MaxStatusUpdates == 1  \* status callbacks that reach the chat during a run
MaxObsCalls == 5          \* calls made on one FileRunObservability
MaxSeedLen == 7        \* characters of the seed given to resolveRoute
MaxInbound == 3        \* Slack events delivered to the socket handlers
MaxCtxCalls == 4       \* calls made on one Slack context
MaxPendingCalls == 2   \* calls of a Slack context chained and not yet run
MaxTextLen == 7        \* characters of a narrative
SLACK_REPLY_CHUNK_SIZE == 3  \* characters of a chunk (30_000 in the source)
MaxStops == 2          \* calls of handleStop

\* --------------------------------------------------------------- utilities
Max(a, b) == IF a >= b THEN a ELSE b
Min(a, b) == IF a <= b THEN a ELSE b
CeilDiv(a, b) == (a + b - 1) \div b
Range(s) == {s[i] : i \in 1..Len(s)}

RECURSIVE SumSeq(_)
SumSeq(s) == IF s = <<>> THEN 0 ELSE Head(s) + SumSeq(Tail(s))

LastN(s, n) == SubSeq(s, Max(1, Len(s) - n + 1), Len(s))

VARIABLES
  \* --- DefaultExecutionRunner.executePlan
  plan,              \* the ExecutionPlan argument
  card,              \* the ExecutionTaskCard argument
  baseTextLen,       \* baseRequest.text.length
  runnerPc,          \* "idle" | "awaiting" | "spinning" | "done" | "failed"
  remaining,         \* ids of the Map `remaining`
  completed,         \* the Set `completed`
  results,           \* the array `results`
  totalInputTokens,
  totalOutputTokens,
  waveGroups,        \* groups of the current wave not yet started
  curGroup,          \* the group whose Promise.all is awaited
  calls,             \* per step: the state of its async closure / bridge call
  dispatchCount,     \* per step: number of bridgeClient.request calls made
  waves,             \* iterations of the while loop started
  runError,          \* the error executePlan threw, or "none"
  finalText,         \* finalText of the returned PlanExecutionResult
  signalAborted,     \* AbortSignal.aborted
  \* --- FileQueuePiBridgeClient.request and the bridge worker
  bcall,             \* per request id: the state of the request() call
  reqFiles,          \* ids with an artifact in requests/
  respFiles,         \* per id: the artifact in responses/, or NoFile
  statusFiles,       \* per id: the artifact in status/, or NoFile
  worker,            \* the worker extension: extensionCtx, activeRequest, ...
  now,               \* Date.now(), in ms
  answered,          \* per id: the response the worker wrote last (history)
  \* --- ChannelQueue
  queue,             \* per channel: ChannelQueue.queue
  processing,        \* per channel: ChannelQueue.processing
  activeWork,        \* per channel: work items started and not yet settled
  startedLog,        \* per channel: items in the order their work() was called
  enqueuedLog,       \* per channel: items in the order they were enqueued
  lastEnqueue,       \* the last submission: channel, queue before it, what was returned
  \* --- MomRunService.handleEvent: the confirmation gate
  gateNow,           \* this.now(), in ms
  eventSeq,          \* number of Slack events delivered so far
  pendingExecutionApproval,  \* per channel: state.pendingExecutionApproval
  running,           \* per channel: state.running
  abortController,   \* per channel: state.abortController is set
  lastHandled,       \* per channel: the last handleEvent call and what it did
  origin,            \* per channel: the event that created the pending approval
  \* --- MomRunService.handleEvent from the dispatch on, and handleStop
  run,               \* the run of one channel: position, flags, trace, messages
  \* --- FileRunObservability
  active,            \* per run id: the RunTrace in the Map `active`, or NoTrace
  traceFiles,        \* per run id: the trace written to runs/<id>.json, or NoFile
  metricsFile,       \* the MetricsSnapshot in metrics.json, or NoFile
  obsCalls,          \* calls made so far; the clock of nowIso()
  startedRuns,       \* startRun calls made so far (history)
  lastObs,            \* the last call: method, run id, whether the id was active
  \* --- DefaultModelRouter.resolveRoute
  routeIntent,       \* the intent argument
  routeSeed,         \* the seed argument, a sequence of char codes
  modelRoute,        \* the ModelRoute returned, NoRoute before the call
  \* --- SlackBot.setupEventHandlers
  acks,              \* calls of ack()
  logged,            \* messages written to log.jsonl by logUserMessage
  enqueued,          \* handleEvent calls put on a channel queue
  lastInbound,       \* the last event delivered and what its handler did
  \* --- createSlackContext
  ctxEvent,          \* the event and isEvent arguments: isEvent, hasThreadTs
  messageTs,         \* ts of the main message, 0 for null
  isWorking,         \* the working indicator flag
  updatePromise,     \* the callbacks chained on updatePromise and not yet run
  rejected,          \* updatePromise has rejected
  ctxCalls,          \* calls made on the context so far
  mainPosts,         \* main messages posted so far (history)
  mainDeletes,       \* main messages deleted so far (history)
  lastEffect,        \* the call whose callback ran last (history)
  dropped,           \* a call was made after updatePromise rejected (history)
  lastOp,            \* the last call of the transport (history)
  narrative          \* respondWithNarrative: its chunks, position and what reached the user

runnerVars == <<plan, card, baseTextLen, runnerPc, remaining, completed, results,
                totalInputTokens, totalOutputTokens, waveGroups, curGroup, calls,
                dispatchCount, waves, runError, finalText, signalAborted>>
bridgeVars == <<bcall, reqFiles, respFiles, statusFiles, worker, now, answered>>
queueVars == <<queue, processing, activeWork, startedLog, enqueuedLog, lastEnqueue>>
gateVars == <<gateNow, eventSeq, pendingExecutionApproval, running, abortController,
              lastHandled, origin>>
runVars == <<run>>
obsVars == <<active, traceFiles, metricsFile, obsCalls, startedRuns, lastObs>>
routeVars == <<routeIntent, routeSeed, modelRoute>>
slackVars == <<acks, logged, enqueued, lastInbound>>
ctxVars == <<ctxEvent, messageTs, isWorking, updatePromise, rejected, ctxCalls, mainPosts,
             mainDeletes, lastEffect, dropped, lastOp, narrative>>
vars == <<runnerVars, bridgeVars, queueVars, gateVars, runVars, obsVars, routeVars, slackVars,
          ctxVars>>

\* ====================================================================
\* Plans, task cards and the pure helpers of the execution runner
\* ====================================================================
NoGroup == ""            \* parallelGroup absent
FallbackId == 0          \* `${plan.runId}-synth`, the step of an empty plan
MissingId == 0 - 1          \* an id that names no step of any generated plan
UuidLen == 36            \* randomUUID().length

WorkerLen(w) ==
  CASE w = "planner" -> 7 [] w = "coder" -> 5 [] w = "reviewer" -> 8
    [] w = "tester" -> 6 [] w = "docs" -> 4 [] w = "synthesizer" -> 11

RiskLen(r) == CASE r = "low" -> 3 [] r = "medium" -> 6 [] r = "high" -> 4

Step(id, workerType, summaryLen, dependsOn, group) ==
  [id |-> id, worker |-> workerType, summaryLen |-> summaryLen,
   dependsOn |-> dependsOn, parallelGroup |-> group]

\* DefaultOrchestrator.buildPlan: ids 1..6 stand for the six fresh UUIDs.
buildPlan(intentType, objectiveLen) ==
  LET planner == Step(1, "planner", 7, {}, NoGroup) IN
  IF intentType = "execute"
  THEN [runIdLen |-> UuidLen,
        steps |-> << planner,
                     Step(2, "coder", 9, {1}, NoGroup),
                     Step(3, "reviewer", 7, {2}, "verify"),
                     Step(4, "tester", 7, {2}, "verify"),
                     Step(5, "docs", 6, {3, 4}, NoGroup),
                     Step(6, "synthesizer", 6, {5}, NoGroup) >>]
  ELSE [runIdLen |-> UuidLen,
        steps |-> << planner,
                     Step(2, "synthesizer", 2 + objectiveLen + 3, {1}, NoGroup) >>]

\* The effective plan of executePlan: an empty plan gets one synthesizer step.
EffectivePlan(p) ==
  IF Len(p.steps) > 0 THEN p
  ELSE [p EXCEPT !.steps = << Step(FallbackId, "synthesizer", 18, {}, NoGroup) >>]

StepIds(p) == {p.steps[i].id : i \in 1..Len(p.steps)}
StepOf(p, id) == CHOOSE st \in Range(p.steps) : st.id = id
IdLen(p, id) == IF id = FallbackId THEN p.runIdLen + 6 ELSE UuidLen

\* A text is [of |-> tag, len |-> length]; only the length is measured.
Text(of, len) == [of |-> of, len |-> len]
NoText == Text(<<"empty", 0>>, 0)

estimateTokens(text) == Max(1, CeilDiv(text.len, 4))

\* buildStepPrompt, as the length of the string it returns.
PriorLen(priorResults) ==
  LET last == LastN(priorResults, 4)
      lens == [i \in 1..Len(last) |->
                 3 + WorkerLen(last[i].worker) + 2 + Min(last[i].text.len, 800)]
  IN IF Len(last) = 0 THEN 0 ELSE SumSeq(lens) + (Len(last) - 1)

buildStepPrompt(baseLen, p, step, taskCard, priorResults) ==
  LET prior == PriorLen(priorResults)
      lines == << 16 + IdLen(p, step.id) + 1,
                  8 + WorkerLen(step.worker),
                  9 + step.summaryLen,
                  11 + taskCard.objectiveLen,
                  6 + RiskLen(taskCard.riskLevel),
                  15 + taskCard.doneCriteriaLen,
                  13,
                  baseLen,
                  20,
                  IF prior = 0 THEN 8 ELSE prior,
                  55 >>
  IN Text(<<"prompt", 0>>, SumSeq(lines) + (Len(lines) - 1))

\* selectReadySteps: the remaining steps, in plan order, whose dependencies
\* are all completed.
DepsSatisfied(step, done) == \A d \in step.dependsOn : d \in done

\* a selectReadySteps that does not look at the dependencies
selectReadyStepsIgnoringDeps(p, done, rem) ==
  SelectSeq(p.steps, LAMBDA st : st.id \in rem)

selectReadySteps(p, done, rem) ==
  SelectSeq(p.steps, LAMBDA st : st.id \in rem /\ DepsSatisfied(st, done))

\* groupByParallelKey: groups in order of first occurrence of the key
\* `step.parallelGroup || step.id`; each group is a sequence of step ids.
ParallelKeyStepId(st) ==
  <<"id", st.id>>
ParallelKey(st) ==
  IF st.parallelGroup # NoGroup THEN <<"g", st.parallelGroup>> ELSE <<"id", st.id>>

RECURSIVE groupByParallelKey(_)
groupByParallelKey(steps) ==
  IF steps = <<>> THEN <<>>
  ELSE LET k == ParallelKey(Head(steps))
           same == SelectSeq(steps, LAMBDA st : ParallelKey(st) = k)
           rest == SelectSeq(steps, LAMBDA st : ParallelKey(st) # k)
       IN << [i \in 1..Len(same) |-> same[i].id] >> \o groupByParallelKey(rest)

\* a runner without the stuck check
PlanIsStuckNever(ready) == FALSE

\* `if (ready.length === 0) throw`
PlanIsStuck(ready) == Len(ready) = 0

\* a runner without the budget check before the call
ExceedsBeforeNever(projectedInput, taskCard) == FALSE

\* `if (projectedInput > taskCard.budget.tokenBudget) throw` (before the call)
ExceedsBefore(projectedInput, taskCard) == projectedInput > taskCard.tokenBudget

\* `if (projectedInput + totalOutputTokens + outputTokens > tokenBudget) throw`
ExceedsAfter(projectedInput, totalOut, outputTokens, taskCard) ==
  projectedInput + totalOut + outputTokens > taskCard.tokenBudget

\* a finalStep that is the last result whatever its worker
FinalTextOfLastStep(res) ==
  IF Len(res) > 0 THEN res[Len(res)].text ELSE NoText

\* finalStep: the last synthesizer result, else the last result, else "".
FinalTextOf(res) ==
  LET synth == {i \in 1..Len(res) : res[i].worker = "synthesizer"}
  IN IF synth # {} THEN res[CHOOSE i \in synth : \A j \in synth : j <= i].text
     ELSE IF Len(res) > 0 THEN res[Len(res)].text
     ELSE NoText

\* ====================================================================
\* DefaultExecutionRunner.executePlan
\* ====================================================================
NoCall == [state |-> "none", inputTokens |-> 0, projectedInput |-> 0,
           seen |-> {}, text |-> NoText, outputTokens |-> 0,
           error |-> "none",
           issuedAborted |-> FALSE]   \* signal.aborted when request() was called

\* The synchronous part of one async closure of group.map: the prompt, the
\* budget check before the call and the call of bridgeClient.request.
StartStep(id, comp, res, tin) ==
  LET ep == EffectivePlan(plan)
      stepPrompt == buildStepPrompt(baseTextLen, ep, StepOf(ep, id), card, res)
      stepInputTokens == estimateTokens(stepPrompt)
      projectedInput == tin + stepInputTokens
  IN [NoCall EXCEPT
        !.state = IF ExceedsBefore(projectedInput, card) THEN "refused" ELSE "pending",
        !.error = IF ExceedsBefore(projectedInput, card)
                  THEN "BudgetExceededBefore" ELSE "none",
        !.inputTokens = stepInputTokens,
        !.projectedInput = projectedInput,
        !.seen = comp,
        !.issuedAborted = signalAborted /\ ~ExceedsBefore(projectedInput, card)]

\* group.map(async ...) followed by Promise.all: every closure of the group
\* runs up to its first await before anything else happens, so a closure that
\* throws before its call does not keep the later ones from issuing theirs.
\* Promise.all rejects with the first closure (in group order) that threw.
LaunchGroup(cs, group, comp, res, tin) ==
  LET started == [id \in Range(group) |-> StartStep(id, comp, res, tin)]
      refused == {i \in 1..Len(group) : started[group[i]].state = "refused"}
  IN /\ calls' = [id \in DOMAIN cs |->
                    IF id \in Range(group) THEN started[id] ELSE cs[id]]
     /\ dispatchCount' = [id \in DOMAIN dispatchCount |->
                    IF id \in Range(group) /\ started[id].state = "pending"
                    THEN dispatchCount[id] + 1 ELSE dispatchCount[id]]
     /\ curGroup' = group
     /\ IF refused # {}
        THEN /\ runnerPc' = "failed"
             /\ runError' = "BudgetExceededBefore"
        ELSE /\ runnerPc' = "awaiting"
             /\ runError' = "none"
     /\ finalText' = finalText

\* The loops of executePlan, continued from the point where the groups
\* `groupsLeft` of the current wave have not been started yet; `cs` is the
\* state of the closures at that point.
Proceed(cs, rem, comp, res, tin, tout, groupsLeft) ==
  LET ep == EffectivePlan(plan)
      newWave == groupsLeft = <<>>
      ready == selectReadySteps(ep, comp, rem)
      groups == IF newWave THEN groupByParallelKey(ready) ELSE groupsLeft
  IN /\ remaining' = rem
     /\ completed' = comp
     /\ results' = res
     /\ totalInputTokens' = tin
     /\ totalOutputTokens' = tout
     /\ IF newWave /\ rem = {}
        THEN /\ runnerPc' = "done"
             /\ runError' = "none"
             /\ finalText' = FinalTextOf(res)
             /\ waveGroups' = <<>>
             /\ curGroup' = <<>>
             /\ calls' = cs
             /\ UNCHANGED <<dispatchCount, waves>>
        ELSE IF newWave /\ PlanIsStuck(ready)
        THEN /\ runnerPc' = "failed"
             /\ runError' = "PlanStuck"
             /\ waveGroups' = <<>>
             /\ curGroup' = <<>>
             /\ waves' = waves + 1
             /\ calls' = cs
             /\ UNCHANGED <<dispatchCount, finalText>>
        ELSE IF groups = <<>>
        THEN \* a wave without a ready step that is not reported: the while
             \* loop runs again with the same state, for ever
             /\ runnerPc' = "spinning"
             /\ runError' = "none"
             /\ waveGroups' = <<>>
             /\ curGroup' = <<>>
             /\ waves' = waves + 1
             /\ calls' = cs
             /\ UNCHANGED <<dispatchCount, finalText>>
        ELSE /\ LaunchGroup(cs, Head(groups), comp, res, tin)
             /\ waveGroups' = Tail(groups)
             /\ waves' = IF newWave THEN waves + 1 ELSE waves

\* executePlan is called.
ExecutePlan ==
  /\ runnerPc = "idle"
  /\ Proceed(calls, StepIds(EffectivePlan(plan)), {}, <<>>, 0, 0, <<>>)
  /\ UNCHANGED <<plan, card, baseTextLen, signalAborted>>

\* `for (const result of groupResults)`: the results of a group, in group order.
GroupResults(group, cs) ==
  [i \in 1..Len(group) |->
     [stepId |-> group[i],
      worker |-> StepOf(EffectivePlan(plan), group[i]).worker,
      text |-> cs[group[i]].text,
      inputTokens |-> cs[group[i]].inputTokens,
      outputTokens |-> cs[group[i]].outputTokens]]

\* What follows the settling of the call of step `id`, whose closure ended in
\* call state `c`: Promise.all of the awaited group rejects, resolves or waits.
AfterSettle(id, c) ==
  LET cs == [calls EXCEPT ![id] = c] IN
  IF runnerPc = "awaiting" /\ id \in Range(curGroup)
  THEN IF c.state = "rejected"
       THEN /\ calls' = cs
            /\ runnerPc' = "failed"
            /\ runError' = c.error
            /\ UNCHANGED <<remaining, completed, results, totalInputTokens,
                           totalOutputTokens, waveGroups, curGroup, dispatchCount,
                           waves, finalText>>
       ELSE IF \A o \in Range(curGroup) : cs[o].state = "resolved"
       THEN LET gr == GroupResults(curGroup, cs)
                rem == remaining \ Range(curGroup)
                comp == completed \cup Range(curGroup)
                tin == totalInputTokens + SumSeq([i \in 1..Len(gr) |-> gr[i].inputTokens])
                tout == totalOutputTokens + SumSeq([i \in 1..Len(gr) |-> gr[i].outputTokens])
            IN Proceed(cs, rem, comp, results \o gr, tin, tout, waveGroups)
       ELSE /\ calls' = cs
            /\ UNCHANGED <<runnerPc, runError, remaining, completed, results,
                           totalInputTokens, totalOutputTokens, waveGroups, curGroup,
                           dispatchCount, waves, finalText>>
  ELSE \* the run has already failed: the closure's outcome is dropped
       /\ calls' = cs
       /\ UNCHANGED <<runnerPc, runError, remaining, completed, results,
                      totalInputTokens, totalOutputTokens, waveGroups, curGroup,
                      dispatchCount, waves, finalText>>

\* The bridge answers the call of step `id` with a text of length `len`:
\* the closure resumes after `await this.bridgeClient.request(...)`.
BridgeResolves(id, len) ==
  /\ calls[id].state = "pending"
  /\ LET text == Text(<<"response", id>>, len)
         outputTokens == estimateTokens(text)
         over == ExceedsAfter(calls[id].projectedInput, totalOutputTokens,
                              outputTokens, card)
         c == [calls[id] EXCEPT
                 !.state = IF over THEN "rejected" ELSE "resolved",
                 !.error = IF over THEN "BudgetExceededAfter" ELSE "none",
                 !.text = text,
                 !.outputTokens = outputTokens]
     IN AfterSettle(id, c)
  /\ UNCHANGED <<plan, card, baseTextLen, signalAborted>>

\* The bridge call of step `id` raises: the worker reported an error, the
\* call timed out, or (only with the signal set) it was aborted.
BridgeErrors == {"WorkerReportedError", "BridgeTimeout", "BridgeAborted"}

BridgeRejects(id, err) ==
  /\ calls[id].state = "pending"
  /\ err \in BridgeErrors
  /\ err = "BridgeAborted" => signalAborted
  /\ AfterSettle(id, [calls[id] EXCEPT !.state = "rejected", !.error = err])
  /\ UNCHANGED <<plan, card, baseTextLen, signalAborted>>

\* AbortController.abort(), called by handleStop while the run is active.
AbortRun ==
  /\ runnerPc \in {"idle", "awaiting"}
  /\ ~signalAborted
  /\ signalAborted' = TRUE
  /\ UNCHANGED <<plan, card, baseTextLen, runnerPc, remaining, completed, results,
                 totalInputTokens, totalOutputTokens, waveGroups, curGroup, calls,
                 dispatchCount, waves, runError, finalText>>

\* ====================================================================
\* The bridge: FileQueuePiBridgeClient.request, waitForResponse and the
\* worker extension that answers requests.  Client and worker are separate
\* processes: each file operation of one can fall between two of the other.
\* A write of an artifact is atomic.
\* ====================================================================
PollIntervalMs == 150    \* RESPONSE_POLL_INTERVAL_MS
ClientTimeoutMs == TimeoutPolls * PollIntervalMs   \* this.timeoutMs of the client
\* budget.timeoutMs of createTaskCard: 180_000 for a low-risk card, else
\* 600_000, which is also the default timeout of the client
LowRiskTimeoutMs == LowRiskTimeoutPolls * PollIntervalMs
TaskTimeouts == {LowRiskTimeoutMs, ClientTimeoutMs}

CallIds == {1}           \* the UUID of the request() call that is followed
\* the names <id>.json that artifacts can have, in filename order; the request
\* artifact named 2 is one that readRequest cannot parse
RequestIds == {1, 2, 3}
IsRequest(id) == id # 2
NoFile == [kind |-> "absent"]
NoId == 0

StatusFile(id, phase, text, at) ==
  [kind |-> "status", id |-> id, phase |-> phase, text |-> text, updatedAt |-> at]
ResponseOk(id, text) == [kind |-> "response", id |-> id, ok |-> TRUE, text |-> text,
                         error |-> "none"]
ResponseError(id, error) == [kind |-> "response", id |-> id, ok |-> FALSE,
                             text |-> NoText, error |-> error]

\* `${status.phase}:${status.updatedAt}:${status.text}`
Signature(status) == <<status.phase, status.updatedAt, status.text>>
NoSignature == <<>>      \* lastStatusSignature = ""

NoBridgeCall ==
  [pc |-> "none", hasOnStatus |-> FALSE, start |-> 0, sleeping |-> FALSE,
   lastSig |-> NoSignature, outcome |-> "none", text |-> NoText, error |-> "none",
   leftAtExit |-> {},
   requestedTimeoutMs |-> 0,     \* options.timeoutMs handed to request()
   abortedAtWrite |-> FALSE,     \* signal.aborted when the request was written
   polledAborted |-> FALSE,      \* a loop iteration began with signal.aborted
   abortedAtOutcome |-> FALSE,   \* signal.aborted when the outcome was decided
   prevRead |-> NoSignature,     \* signature of the status read last by the loop
   reread |-> FALSE,             \* a read found the signature of the read before
   redelivered |-> FALSE,        \* ... and handed that status to onStatus again
   undelivered |-> FALSE]        \* a read found a new signature and kept it back

\* The artifacts of id that exist in the three directories.
ArtifactsIn(id, requests, responses, statuses) ==
  (IF id \in requests THEN {"request"} ELSE {})
    \cup (IF responses[id] # NoFile THEN {"response"} ELSE {})
    \cup (IF statuses[id] # NoFile THEN {"status"} ELSE {})

Artifacts(id) == ArtifactsIn(id, reqFiles, respFiles, statusFiles)

\* The finally block of request(): requestFile and responseFile are removed,
\* then statusFile, then the call returns or raises.  (The worker never reads
\* a response, so the first two removals are one step for it.)
CleanupAfter(pc) ==
  CASE pc = "rmRequest" -> "rmStatus"
    [] pc = "rmStatus" -> "ended"

RemovedAtKeepingResponse(pc) ==
  CASE pc = "rmRequest" -> {"request"}
    [] pc = "rmStatus" -> {"status"}

RemovedAt(pc) ==
  CASE pc = "rmRequest" -> {"request", "response"}
    [] pc = "rmStatus" -> {"status"}

\* request() up to its first await: a fresh id, the request artifact, and the
\* "received" status handed to onStatus (before the try block).  Calls of
\* different ids share no artifact; one call is followed here.
ClientRequest(id, withOnStatus, timeoutMs) ==
  /\ bcall[id].pc = "none"
  /\ reqFiles' = reqFiles \cup {id}
  /\ bcall' = [bcall EXCEPT ![id] =
        [NoBridgeCall EXCEPT
           !.pc = IF withOnStatus THEN "received" ELSE "poll",
           !.hasOnStatus = withOnStatus,
           !.start = now,
           !.requestedTimeoutMs = timeoutMs,
           !.abortedAtWrite = signalAborted]]
  /\ UNCHANGED <<respFiles, statusFiles, worker, now, answered>>

\* `await onStatus({phase: "received", ...})` returns: waitForResponse starts.
ReceivedStatusReturns(id) ==
  /\ bcall[id].pc = "received"
  /\ bcall' = [bcall EXCEPT ![id].pc = "poll", ![id].start = now]
  /\ UNCHANGED <<reqFiles, respFiles, statusFiles, worker, now, answered>>

\* `await onStatus({phase: "received", ...})` throws: it is called outside the
\* try block, so request() raises without running its finally block.
ReceivedStatusThrows(id) ==
  /\ bcall[id].pc = "received"
  /\ bcall' = [bcall EXCEPT ![id].pc = "ended", ![id].outcome = "raised",
                            ![id].error = "StatusCallbackError",
                            ![id].abortedAtOutcome = signalAborted,
                            ![id].leftAtExit = Artifacts(id)]
  /\ UNCHANGED <<reqFiles, respFiles, statusFiles, worker, now, answered>>

\* The end of a loop iteration of waitForResponse: the response artifact is
\* there and is returned to request(), or the call sleeps one interval.
CheckResponse(c, id) ==
  IF respFiles[id] # NoFile
  THEN IF respFiles[id].ok
       THEN [c EXCEPT !.pc = "rmRequest", !.outcome = "returned",
                      !.text = respFiles[id].text,
                      !.abortedAtOutcome = signalAborted]
       ELSE [c EXCEPT !.pc = "rmRequest", !.outcome = "raised",
                      !.error = "WorkerReportedError",
                      !.abortedAtOutcome = signalAborted]
  ELSE [c EXCEPT !.pc = "poll", !.sleeping = TRUE]

\* `signature !== lastStatusSignature`
SignatureChangedAlways(signature, lastStatusSignature) ==
  TRUE
SignatureChanged(signature, lastStatusSignature) ==
  signature # lastStatusSignature

\* a loop `while (true)`: an iteration that does not look at the clock
PollIterationForever(id) ==
  /\ bcall[id].pc = "poll"
  /\ ~bcall[id].sleeping
  /\ LET c == [bcall[id] EXCEPT !.polledAborted = signalAborted]
         status == statusFiles[id]
     IN bcall' = [bcall EXCEPT ![id] =
          IF signalAborted
          THEN [c EXCEPT !.pc = "rmRequest", !.outcome = "raised",
                         !.error = "BridgeAborted",
                         !.abortedAtOutcome = signalAborted]
          ELSE IF c.hasOnStatus /\ status # NoFile
          THEN LET same == Signature(status) = c.prevRead
                   read == [c EXCEPT !.prevRead = Signature(status),
                                     !.reread = @ \/ same]
               IN IF SignatureChanged(Signature(status), c.lastSig)
                  THEN [read EXCEPT !.pc = "notifying", !.lastSig = Signature(status),
                                    !.redelivered = @ \/ same]
                  ELSE CheckResponse([read EXCEPT !.undelivered = @ \/ ~same], id)
          ELSE CheckResponse(c, id)]
  /\ UNCHANGED <<reqFiles, respFiles, statusFiles, worker, now, answered>>

\* One iteration of the while loop of waitForResponse, up to its next await.
PollIteration(id) ==
  /\ bcall[id].pc = "poll"
  /\ ~bcall[id].sleeping
  /\ LET c == [bcall[id] EXCEPT !.polledAborted = signalAborted]
         status == statusFiles[id]
     IN bcall' = [bcall EXCEPT ![id] =
          IF ~(now - c.start < ClientTimeoutMs)
          THEN [c EXCEPT !.pc = "rmRequest", !.outcome = "raised",
                         !.error = "BridgeTimeout",
                         !.abortedAtOutcome = signalAborted]
          ELSE IF signalAborted
          THEN [c EXCEPT !.pc = "rmRequest", !.outcome = "raised",
                         !.error = "BridgeAborted",
                         !.abortedAtOutcome = signalAborted]
          ELSE IF c.hasOnStatus /\ status # NoFile
          THEN LET same == Signature(status) = c.prevRead
                   read == [c EXCEPT !.prevRead = Signature(status),
                                     !.reread = @ \/ same]
               IN IF SignatureChanged(Signature(status), c.lastSig)
                  THEN [read EXCEPT !.pc = "notifying", !.lastSig = Signature(status),
                                    !.redelivered = @ \/ same]
                  ELSE CheckResponse([read EXCEPT !.undelivered = @ \/ ~same], id)
          ELSE CheckResponse(c, id)]
  /\ UNCHANGED <<reqFiles, respFiles, statusFiles, worker, now, answered>>

\* `await onStatus(status)` inside the loop returns.
StatusCallbackReturns(id) ==
  /\ bcall[id].pc = "notifying"
  /\ bcall' = [bcall EXCEPT ![id] = CheckResponse(bcall[id], id)]
  /\ UNCHANGED <<reqFiles, respFiles, statusFiles, worker, now, answered>>

\* `await onStatus(status)` inside the loop throws: the finally block runs.
StatusCallbackThrows(id) ==
  /\ bcall[id].pc = "notifying"
  /\ bcall' = [bcall EXCEPT ![id].pc = "rmRequest", ![id].outcome = "raised",
                            ![id].error = "StatusCallbackError",
                            ![id].abortedAtOutcome = signalAborted]
  /\ UNCHANGED <<reqFiles, respFiles, statusFiles, worker, now, answered>>

\* One step of the finally block; after the last the call returns or raises.
ClientCleanup(id) ==
  /\ bcall[id].pc \in {"rmRequest", "rmStatus"}
  /\ LET removed == RemovedAt(bcall[id].pc) IN
     /\ reqFiles' = IF "request" \in removed THEN reqFiles \ {id} ELSE reqFiles
     /\ respFiles' = IF "response" \in removed
                     THEN [respFiles EXCEPT ![id] = NoFile] ELSE respFiles
     /\ statusFiles' = IF "status" \in removed
                       THEN [statusFiles EXCEPT ![id] = NoFile] ELSE statusFiles
  /\ bcall' = [bcall EXCEPT ![id] =
        IF CleanupAfter(bcall[id].pc) = "ended"
        THEN [@ EXCEPT !.pc = "ended", !.start = 0, !.lastSig = NoSignature,
                      !.sleeping = FALSE, !.prevRead = NoSignature,
                      !.leftAtExit = ArtifactsIn(id, reqFiles', respFiles', statusFiles')]
        ELSE [@ EXCEPT !.pc = CleanupAfter(bcall[id].pc)]]
  /\ UNCHANGED <<worker, now, answered>>

\* One poll interval passes: sleep(RESPONSE_POLL_INTERVAL_MS) of every
\* sleeping call resolves.
Tick ==
  /\ now < MaxTicks * PollIntervalMs
  /\ now' = now + PollIntervalMs
  /\ bcall' = [id \in CallIds |-> [bcall[id] EXCEPT !.sleeping = FALSE]]
  /\ UNCHANGED <<reqFiles, respFiles, statusFiles, worker, answered>>

\* A poll interval passes after the clock of the model has stopped: the
\* sleeping calls wake, and `now` keeps its last value.
TickAtHorizon ==
  /\ now = MaxTicks * PollIntervalMs
  /\ \E id \in CallIds : bcall[id].sleeping
  /\ bcall' = [id \in CallIds |-> [bcall[id] EXCEPT !.sleeping = FALSE]]
  /\ UNCHANGED <<reqFiles, respFiles, statusFiles, worker, now, answered>>

\* AbortController.abort() on the signal handed to request().
AbortSignal ==
  /\ ~signalAborted
  /\ signalAborted' = TRUE
  /\ UNCHANGED <<plan, card, baseTextLen, runnerPc, remaining, completed, results,
                 totalInputTokens, totalOutputTokens, waveGroups, curGroup, calls,
                 dispatchCount, waves, runError, finalText>>
  /\ UNCHANGED bridgeVars

\* ------------------------------------------------------------- the worker
WorkerIdle == [pc |-> "idle", ctx |-> TRUE, active |-> NoId, runStarted |-> FALSE,
               lastText |-> NoText, lastError |-> "none",
               accepted |-> {}]   \* ids that were the active request (history)

\* an emitStatus that writes to the first name instead of the active request's
EmitStatusToFirst(w, phase, text) ==
  [statusFiles EXCEPT ![1] = StatusFile(1, phase, text, now)]

\* emitStatus: writes the status artifact of the active request, if any.
EmitStatus(w, phase, text) ==
  IF w.active = NoId THEN statusFiles
  ELSE [statusFiles EXCEPT ![w.active] = StatusFile(w.active, phase, text, now)]

\* the last entry of the sorted requests directory
LastRequest == CHOOSE id \in reqFiles : \A o \in reqFiles : id >= o

\* entries[0] of the sorted requests directory
FirstRequest == CHOOSE id \in reqFiles : \A o \in reqFiles : id <= o

\* pollOnce, first part: the first request in filename order becomes the
\* active request and the "queued" status is written.
WorkerAccept ==
  /\ worker.pc = "idle"
  /\ worker.ctx
  /\ worker.active = NoId
  /\ reqFiles # {}
  /\ IF ~IsRequest(FirstRequest)
     THEN /\ reqFiles' = reqFiles \ {FirstRequest}
          /\ UNCHANGED <<worker, statusFiles>>
     ELSE LET w == [worker EXCEPT !.pc = "accepted", !.active = FirstRequest,
                                  !.runStarted = FALSE, !.lastText = NoText,
                                  !.lastError = "none",
                                  !.accepted = @ \cup {FirstRequest}]
          IN /\ worker' = w
             /\ statusFiles' = EmitStatus(w, "queued", "queued")
             /\ reqFiles' = reqFiles
  /\ UNCHANGED <<bcall, respFiles, now, answered>>

\* pollOnce when readRequest returns null for the first request, whatever its
\* name (a payload that fails the checks of readRequest, or a file read while
\* it is being written): the request is removed and nothing is written.
RemoveUnreadableRequest ==
  /\ worker.pc = "idle"
  /\ worker.ctx
  /\ worker.active = NoId
  /\ reqFiles # {}
  /\ reqFiles' = reqFiles \ {FirstRequest}
  /\ UNCHANGED <<bcall, respFiles, statusFiles, worker, now, answered>>

\* pollOnce, second part: pi.sendUserMessage(prompt) succeeds ("waiting"
\* status) or throws ("failed" status and finalizeRequest with ok=false).
WorkerSubmit(accepted) ==
  /\ worker.pc = "accepted"
  /\ IF accepted
     THEN /\ worker' = [worker EXCEPT !.pc = "waiting"]
          /\ statusFiles' = EmitStatus(worker, "waiting", "waiting")
          /\ respFiles' = respFiles
     ELSE /\ worker' = [worker EXCEPT !.pc = "finalizing"]
          /\ statusFiles' = EmitStatus(worker, "failed", "submit failed")
          /\ respFiles' = [respFiles EXCEPT ![worker.active] =
                             ResponseError(worker.active, "failed to enqueue prompt")]
  /\ answered' = [id \in RequestIds |-> IF respFiles'[id] # respFiles[id]
                                      THEN respFiles'[id] ELSE answered[id]]
  /\ UNCHANGED <<bcall, reqFiles, now>>

\* before_agent_start for the prompt of the active request.
BeforeAgentStart ==
  /\ worker.pc = "waiting"
  /\ worker' = [worker EXCEPT !.pc = "running", !.runStarted = TRUE]
  /\ statusFiles' = EmitStatus(worker, "running", "started")
  /\ UNCHANGED <<bcall, reqFiles, respFiles, now, answered>>

\* tool_call
ToolCall ==
  /\ worker.pc = "running"
  /\ worker.runStarted
  /\ statusFiles' = EmitStatus(worker, "tool", "tool")
  /\ UNCHANGED <<bcall, reqFiles, respFiles, worker, now, answered>>

\* message_end of an assistant message whose trimmed text has length len,
\* with or without stopReason "error".
MessageEnd(len, isError) ==
  /\ worker.pc = "running"
  /\ worker.runStarted
  /\ LET w1 == IF len > 0
               THEN [worker EXCEPT !.lastText = Text(<<"assistant", worker.active>>, len)]
               ELSE worker
         s1 == IF len > 0 THEN EmitStatus(worker, "running", "progress") ELSE statusFiles
     IN IF isError
        THEN /\ worker' = [w1 EXCEPT !.lastError = "agent error"]
             /\ statusFiles' = EmitStatus(worker, "failed", "error")
        ELSE /\ worker' = w1
             /\ statusFiles' = s1
  /\ UNCHANGED <<bcall, reqFiles, respFiles, now, answered>>

\* agent_end: the final status and writeResponse of finalizeRequest.
AgentEnd ==
  /\ worker.pc = "running"
  /\ worker.runStarted
  /\ worker' = [worker EXCEPT !.pc = "finalizing"]
  /\ IF worker.lastError # "none"
     THEN /\ statusFiles' = EmitStatus(worker, "failed", "failed")
          /\ respFiles' = [respFiles EXCEPT ![worker.active] =
                             ResponseError(worker.active, worker.lastError)]
     ELSE IF worker.lastText.len = 0
     THEN /\ statusFiles' = EmitStatus(worker, "failed", "no text")
          /\ respFiles' = [respFiles EXCEPT ![worker.active] =
                             ResponseError(worker.active, "no text response")]
     ELSE /\ statusFiles' = EmitStatus(worker, "completed", "completed")
          /\ respFiles' = [respFiles EXCEPT ![worker.active] =
                             ResponseOk(worker.active, worker.lastText)]
  /\ answered' = [answered EXCEPT ![worker.active] = respFiles'[worker.active]]
  /\ UNCHANGED <<bcall, reqFiles, now>>

\* finalizeRequest after writeResponse: the request and status artifacts of
\* the active request are removed and activeRequest = null.  (The client
\* never reads a request, so the two removals are one step for it.)
FinalizeRequest ==
  /\ worker.pc = "finalizing"
  /\ reqFiles' = reqFiles \ {worker.active}
  /\ statusFiles' = [statusFiles EXCEPT ![worker.active] = NoFile]
  /\ worker' = [worker EXCEPT !.pc = "idle", !.active = NoId, !.runStarted = FALSE,
                              !.lastText = NoText, !.lastError = "none"]
  /\ UNCHANGED <<bcall, respFiles, now, answered>>

\* session_shutdown: the active request, if any, is answered with ok=false.
SessionShutdown ==
  /\ worker.pc \in {"idle", "waiting", "running"}
  /\ worker.ctx
  /\ IF worker.active # NoId
     THEN /\ respFiles' = [respFiles EXCEPT ![worker.active] =
                             ResponseError(worker.active, "session shut down")]
          /\ worker' = [worker EXCEPT !.pc = "finalizing", !.ctx = FALSE]
     ELSE /\ respFiles' = respFiles
          /\ worker' = [worker EXCEPT !.ctx = FALSE]
  /\ answered' = [id \in RequestIds |-> IF respFiles'[id] # respFiles[id]
                                      THEN respFiles'[id] ELSE answered[id]]
  /\ UNCHANGED <<bcall, reqFiles, statusFiles, now>>

\* request() of a call that is not followed writes its request artifact:
\* ids are fresh UUIDs
RequestWritten(id) ==
  /\ id \notin reqFiles
  /\ id \notin worker.accepted
  /\ reqFiles' = reqFiles \cup {id}
  /\ UNCHANGED <<bcall, respFiles, statusFiles, worker, now, answered>>

\* session_start
SessionStart ==
  /\ worker.pc = "idle"
  /\ ~worker.ctx
  /\ worker' = [worker EXCEPT !.ctx = TRUE]
  /\ UNCHANGED <<bcall, reqFiles, respFiles, statusFiles, now, answered>>

BridgeIdle ==
  /\ bcall = [id \in CallIds |-> NoBridgeCall]
  /\ reqFiles = {}
  /\ respFiles = [id \in RequestIds |-> NoFile]
  /\ statusFiles = [id \in RequestIds |-> NoFile]
  /\ worker = WorkerIdle
  /\ now = 0
  /\ answered = [id \in RequestIds |-> NoFile]

Channels == {"C1", "C2"}
GateChannels == {"C1"}    \* the channel whose ChannelState is followed

\* ====================================================================
\* The confirmation gate: MomRunService.handleEvent up to the call of
\* executePlan, with the conversation agent, the execution gateway and the
\* orchestrator it calls.
\* ====================================================================
EXECUTION_CONFIRMATION_TTL_MS == 10 * 60 * 1000
CONFIRMATION_REMINDER_DEBOUNCE_MS == 3000
TokenDigits == 6         \* compact.slice(-6)
TsBase == 1700 * (10 ^ TokenDigits)   \* event.ts "1700.000000", its digits

NoToken == 0 - 1         \* tokenMatch?.[1] is undefined
NoThread == 0 - 1        \* event.threadTs is undefined
NoPending == [kind |-> "undefined"]
NoDispatch == [kind |-> "none"]
NoEvent == [kind |-> "none"]

\* A message text, by what the keyword and pattern tests of the code find in
\* it: its length after clampText, whether a CANCEL_KEYWORDS / CONFIRM_KEYWORDS
\* entry occurs, the token CONFIRM_TOKEN_PATTERN extracts, the markers of
\* buildIntent, and whether a HIGH_RISK_PATTERNS / LOW_RISK_PATTERNS /
\* DANGEROUS_KEYWORDS entry occurs.
MessageText(name, len, cancelKw, confirmKw, token, question, status, highRisk, lowRisk, dangerous) ==
  [name |-> name, len |-> len, cancelKw |-> cancelKw, confirmKw |-> confirmKw,
   token |-> token, question |-> question, status |-> status, highRisk |-> highRisk,
   lowRisk |-> lowRisk, dangerous |-> dangerous]

TaskText(name, len, question, status, highRisk, lowRisk, dangerous) ==
  MessageText(name, len, FALSE, FALSE, NoToken, question, status, highRisk, lowRisk,
              dangerous)

\* "部署新版本到测试环境"
TextDeploy == TaskText("deploy", 10, FALSE, FALSE, FALSE, FALSE, FALSE)
\* "drop the users table"
TextDropTable == TaskText("drop table", 20, FALSE, FALSE, TRUE, FALSE, TRUE)
\* "drop"
TextDrop == TaskText("drop", 4, FALSE, FALSE, TRUE, FALSE, TRUE)
\* "怎么删除旧分支"
TextHowDelete == TaskText("how to delete", 7, TRUE, FALSE, TRUE, FALSE, TRUE)
\* "format the readme": "rm" occurs, "rm " does not
TextFormat == TaskText("format", 17, FALSE, FALSE, FALSE, FALSE, TRUE)
\* "确认 <token>", "确认"
TextConfirm(token) ==
  MessageText("confirm", IF token = NoToken THEN 2 ELSE 3 + TokenDigits,
              FALSE, TRUE, token, FALSE, FALSE, FALSE, FALSE, FALSE)
\* "取消 <token>", "取消"
TextCancel(token) ==
  MessageText("cancel", IF token = NoToken THEN 2 ELSE 3 + TokenDigits,
              TRUE, FALSE, token, FALSE, FALSE, FALSE, FALSE, FALSE)
\* "   "
TextBlank == TaskText("blank", 0, FALSE, FALSE, FALSE, FALSE, FALSE)

SlackEvent(channel, user, ts, threadTs, text) ==
  [kind |-> "event", channel |-> channel, user |-> user, ts |-> ts,
   threadTs |-> threadTs, text |-> text]

\* slack.getUser(id)?.userName
UserNameOf(user) == <<"userName", user>>

\* createConfirmationToken: the last six digits of the timestamp
createConfirmationToken(ts) == ts % (10 ^ TokenDigits)

\* FileConversationAgent.resolveProfile: conversation-profiles.json here gives
\* user U2 the policy confirm_before_execute; everyone else has DEFAULT_PROFILE.
resolveProfile(channelId, userId) ==
  IF userId = "U2"
  THEN [id |-> <<"user", userId>>, interactionPolicy |-> "confirm_before_execute"]
  ELSE [id |-> <<"default", "">>, interactionPolicy |-> "execute_then_report"]

\* FileConversationAgent.readConfirmationDecision
readConfirmationDecision(text) ==
  IF text.cancelKw THEN [decision |-> "cancel", token |-> text.token]
  ELSE IF text.confirmKw THEN [decision |-> "confirm", token |-> text.token]
  ELSE [decision |-> "unknown", token |-> NoToken]

\* FileConversationAgent.buildIntent, without attachments
buildIntent(text, profile) ==
  LET t1 == IF text.question THEN "question" ELSE "execute"
      t2 == IF text.status THEN "status" ELSE t1
      intentType == IF text.len <= 4 THEN "chat" ELSE t2
  IN [intentType |-> intentType,
      goal |-> text,
      clarificationsNeeded |-> IF intentType = "execute" /\ text.len = 0 THEN 1 ELSE 0,
      toneProfileId |-> profile.id]

\* inferRiskLevel
inferRiskLevel(intent) ==
  IF intent.intentType \in {"status", "question"} THEN "low"
  ELSE IF intent.goal.highRisk THEN "high"
  ELSE IF intent.goal.lowRisk THEN "low"
  ELSE "medium"

\* DefaultExecutionGateway.createTaskCard
createTaskCard(intent) ==
  LET riskLevel == inferRiskLevel(intent) IN
  [objectiveLen |-> intent.goal.len,
   riskLevel |-> riskLevel,
   doneCriteriaLen |-> IF riskLevel = "high" THEN 12 + 13 + 11 + 4 ELSE 12 + 13 + 2,
   tokenBudget |-> IF riskLevel = "low" THEN 12000
                   ELSE IF riskLevel = "high" THEN 20000 ELSE 30000,
   timeoutMs |-> IF riskLevel = "low" THEN 180000 ELSE 600000]

\* DefaultExecutionGateway.createBridgeRequest; runId is the fresh UUID of
\* the plan built for the message with timestamp ts.
createBridgeRequest(intent, taskCard, executionPlan, context, text) ==
  [channelId |-> context.channelId,
   threadTs |-> NoThread,
   userId |-> context.userId,
   userName |-> <<"userId", context.userId>>,
   text |-> text,
   ts |-> context.messageTs,
   intent |-> intent,
   taskCard |-> taskCard,
   executionPlan |-> executionPlan,
   runId |-> <<"run", context.messageTs>>]

\* FileConversationAgent.requiresExecutionConfirmation
requiresExecutionConfirmation(intent, taskCard, profile) ==
  IF intent.intentType # "execute" THEN FALSE
  ELSE IF profile.interactionPolicy = "confirm_before_execute" THEN TRUE
  ELSE IF taskCard.riskLevel = "high" THEN TRUE
  ELSE intent.goal.dangerous

ApprovalExpiredNever(nowMs, approval) == FALSE

\* nowMs - pendingApproval.createdAtMs > EXECUTION_CONFIRMATION_TTL_MS
ApprovalExpired(nowMs, approval) ==
  nowMs - approval.createdAtMs > EXECUTION_CONFIRMATION_TTL_MS

TokenMismatchOnlyIfGiven(token, approval) ==
  token # NoToken /\ token # approval.confirmationToken

\* confirmation.token !== activePendingApproval.confirmationToken
TokenMismatch(token, approval) == token # approval.confirmationToken

\* The arguments handleEvent passes to executionRunner.executePlan.
Dispatch(event, bridgeRequest, taskCard, intent, profile) ==
  [kind |-> "executePlan",
   request |-> [bridgeRequest EXCEPT !.threadTs = event.threadTs,
                                     !.userName = UserNameOf(event.user)],
   executionPlan |-> bridgeRequest.executionPlan,
   taskCard |-> taskCard,
   intent |-> intent,
   profile |-> profile]

\* What one handleEvent call did: the event and clock it saw, the pending
\* approval it found, what it sent with ctx.respond, its executePlan call, and
\* the status it passed to observability.finish ("none": finish not called).
Handled(event, nowMs, before, reply, dispatch, streak) ==
  [event |-> event, nowMs |-> nowMs, before |-> before, reply |-> reply,
   dispatch |-> dispatch, mismatchStreak |-> streak, finished |-> "none",
   returned |-> dispatch = NoDispatch]   \* the call is over (else: awaits executePlan)

\* `state.running = true; ...; state.abortController = new AbortController()`
ChannelStarted == [running |-> TRUE, abortController |-> TRUE]

\* a finally block that leaves the channel state as it is
ChannelFinallyKeeps(state) ==
  state
\* finally: `state.running = false; state.abortController = undefined`
ChannelFinally(state) ==
  [state EXCEPT !.running = FALSE, !.abortController = FALSE]

\* handleEvent of channel c is past its first lines and awaits executePlan.
Awaits(c) ==
  /\ running' = [running EXCEPT ![c] = ChannelStarted.running]
  /\ abortController' = [abortController EXCEPT ![c] = ChannelStarted.abortController]

\* handleEvent of channel c, past its first lines, leaves through finally.
Returns(c) ==
  /\ running' = [running EXCEPT ![c] = ChannelFinally(ChannelStarted).running]
  /\ abortController' =
       [abortController EXCEPT ![c] = ChannelFinally(ChannelStarted).abortController]

\* `if (activePendingApproval)`
ActiveApprovalNever(approval) == FALSE

ActiveApproval(approval) == approval # NoPending

\* `confirmation.token && confirmation.token !== confirmationToken` of a cancel
CancelTokenMismatchNever(token, approval) == FALSE

CancelTokenMismatch(token, approval) ==
  token # NoToken /\ token # approval.confirmationToken

\* `!lastReminderAtMs || nowMs - lastReminderAtMs >= CONFIRMATION_REMINDER_DEBOUNCE_MS`
\* (lastReminderAtMs = 0 stands for undefined: the clock is past 0)
ReminderDueAlways(nowMs, approval) == TRUE

ReminderDue(nowMs, approval) ==
  \/ approval.lastReminderAtMs = 0
  \/ nowMs - approval.lastReminderAtMs >= CONFIRMATION_REMINDER_DEBOUNCE_MS

\* handleEvent with a pending approval that has not expired.
HandlePending(c, event, nowMs, approval) ==
  LET confirmation == readConfirmationDecision(event.text)
      streak == lastHandled[c].mismatchStreak
      stay(reply, n) ==
        /\ pendingExecutionApproval' = pendingExecutionApproval
        /\ lastHandled' = [lastHandled EXCEPT ![c] =
              Handled(event, nowMs, approval, reply, NoDispatch, n)]
        /\ Returns(c)
        /\ UNCHANGED origin
  IN
  IF confirmation.decision = "cancel"
  THEN IF CancelTokenMismatch(confirmation.token, approval)
       THEN stay("cancel token mismatch", 0)
       ELSE /\ pendingExecutionApproval' = [pendingExecutionApproval EXCEPT ![c] = NoPending]
            /\ lastHandled' = [lastHandled EXCEPT ![c] =
                  [Handled(event, nowMs, approval, "cancelled", NoDispatch, 0)
                     EXCEPT !.finished = "cancelled"]]
            /\ origin' = [origin EXCEPT ![c] = NoEvent]
            /\ Returns(c)
  ELSE IF confirmation.decision # "confirm"
  THEN IF ReminderDue(nowMs, approval)
       THEN /\ pendingExecutionApproval' = [pendingExecutionApproval EXCEPT ![c] =
                  [approval EXCEPT !.lastReminderAtMs = nowMs]]
            /\ lastHandled' = [lastHandled EXCEPT ![c] =
                  Handled(event, nowMs, approval, "reminder", NoDispatch, 0)]
            /\ Returns(c)
            /\ UNCHANGED origin
       ELSE stay("none", 0)
  ELSE IF TokenMismatch(confirmation.token, approval)
  THEN stay("confirm token mismatch", Min(streak + 1, 2))
  ELSE /\ pendingExecutionApproval' = [pendingExecutionApproval EXCEPT ![c] = NoPending]
       /\ lastHandled' = [lastHandled EXCEPT ![c] =
             Handled(event, nowMs, approval, "acknowledgement",
                     Dispatch(event, approval.bridgeRequest, approval.taskCard,
                              approval.intent, approval.profile), 0)]
       /\ Awaits(c)
       /\ UNCHANGED origin

\* handleEvent without a pending approval.
HandleFresh(c, event, nowMs) ==
  LET confirmation == readConfirmationDecision(event.text)
      profile == resolveProfile(event.channel, event.user)
      intent == buildIntent(event.text, profile)
      taskCard == createTaskCard(intent)
      executionPlan == buildPlan(intent.intentType, taskCard.objectiveLen)
      context == [channelId |-> event.channel, userId |-> event.user,
                  messageTs |-> event.ts]
      bridgeRequest == createBridgeRequest(intent, taskCard, executionPlan, context,
                                           event.text)
      before == pendingExecutionApproval[c]
      done(reply, status) ==
        /\ lastHandled' = [lastHandled EXCEPT ![c] =
              [Handled(event, nowMs, before, reply, NoDispatch, 0)
                 EXCEPT !.finished = status]]
        /\ Returns(c)
        /\ UNCHANGED <<pendingExecutionApproval, origin>>
  IN
  IF confirmation.decision \in {"confirm", "cancel"} THEN done("no pending task", "none")
  ELSE IF intent.clarificationsNeeded > 0 THEN done("clarification", "cancelled")
  ELSE IF requiresExecutionConfirmation(intent, taskCard, profile)
  THEN /\ pendingExecutionApproval' = [pendingExecutionApproval EXCEPT ![c] =
             [kind |-> "approval", intent |-> intent, profile |-> profile,
              taskCard |-> taskCard, bridgeRequest |-> bridgeRequest,
              confirmationToken |-> createConfirmationToken(event.ts),
              createdAtMs |-> nowMs, lastReminderAtMs |-> 0]]
       /\ lastHandled' = [lastHandled EXCEPT ![c] =
             Handled(event, nowMs, before, "confirmation prompt", NoDispatch, 0)]
       /\ origin' = [origin EXCEPT ![c] = event]
       /\ Returns(c)
  ELSE /\ lastHandled' = [lastHandled EXCEPT ![c] =
             Handled(event, nowMs, before, "acknowledgement",
                     Dispatch(event, bridgeRequest, taskCard, intent, profile), 0)]
       /\ Awaits(c)
       /\ UNCHANGED <<pendingExecutionApproval, origin>>

\* MomRunService.handleEvent for the next event of channel c, delta ms after
\* the previous one, up to its return or its call of executePlan.  The
\* channel's queue starts it only when the previous call has settled.
HandleEvent(c, user, threadTs, text, delta) ==
  /\ eventSeq < MaxEvents
  /\ lastHandled[c].returned
  /\ LET nowMs == gateNow + delta
         event == SlackEvent(c, user, TsBase + eventSeq + 1, threadTs, text)
         approval == pendingExecutionApproval[c]
     IN /\ gateNow' = nowMs
        /\ eventSeq' = eventSeq + 1
        /\ IF text.len = 0
           THEN /\ lastHandled' = [lastHandled EXCEPT ![c] =
                      Handled(event, nowMs, approval, "ignored", NoDispatch, 0)]
                /\ UNCHANGED <<pendingExecutionApproval, running, abortController, origin>>
           ELSE IF approval # NoPending /\ ApprovalExpired(nowMs, approval)
           THEN /\ pendingExecutionApproval' =
                      [pendingExecutionApproval EXCEPT ![c] = NoPending]
                /\ lastHandled' = [lastHandled EXCEPT ![c] =
                      [Handled(event, nowMs, approval, "expired", NoDispatch, 0)
                         EXCEPT !.finished = "cancelled"]]
                /\ origin' = [origin EXCEPT ![c] = NoEvent]
                /\ Returns(c)
           ELSE IF ActiveApproval(approval)
           THEN HandlePending(c, event, nowMs, approval)
           ELSE HandleFresh(c, event, nowMs)

\* executePlan settles and the finally block of handleEvent runs.
ExecutionSettles(c) ==
  /\ ~lastHandled[c].returned
  /\ Returns(c)
  /\ lastHandled' = [lastHandled EXCEPT ![c].returned = TRUE]
  /\ UNCHANGED <<gateNow, eventSeq, pendingExecutionApproval, origin>>

GateIdle ==
  /\ gateNow = 0
  /\ eventSeq = 0
  /\ pendingExecutionApproval = [c \in GateChannels |-> NoPending]
  /\ running = [c \in GateChannels |-> FALSE]
  /\ abortController = [c \in GateChannels |-> FALSE]
  /\ lastHandled = [c \in GateChannels |->
        Handled(NoEvent, 0, NoPending, "none", NoDispatch, 0)]
  /\ origin = [c \in GateChannels |-> NoEvent]


\* ====================================================================
\* A run: MomRunService.handleEvent from the dispatch of the bridge request
\* to its finally block, with the Slack context it writes through, the
\* trace of FileRunObservability, and handleStop.
\* Messages are named by what they say: "thinking", "ack", "progress",
\* "reply", "failure" (through the context), "stopping", "stopped",
\* "nothing running" (posted directly).
\* ====================================================================
NoRun ==
  [pc |-> "none", running |-> FALSE, stopRequested |-> FALSE,
   stopPosting |-> FALSE,       \* handleStop awaits its postMessage
   stopMessageTs |-> FALSE,     \* state.stopMessageTs is set
   stopUpdating |-> FALSE,      \* the stopped message in flight is an update
   ctxBroken |-> FALSE,         \* updatePromise of the context is rejected
   ctxText |-> "none",          \* accumulatedText of the context
   trace |-> "none",            \* "active" or the status the trace ended with
   executionInputTokens |-> 0, executionOutputTokens |-> 0,
   error |-> "none",            \* what the try block of handleEvent threw
   handed |-> {},               \* messages handed to the chat transport
   lastHanded |-> "none",
   failureCalled |-> FALSE,     \* ctx.replaceMessage(buildFailureMessage(..)) was called
   transportFailed |-> FALSE,   \* a call of the chat transport has failed
   statusUpdates |-> 0,
   stops |-> 0,                 \* calls of handleStop so far
   attachments |-> 0,           \* event.attachments.length of the message
   finalMessage |-> "none"]     \* lastHanded when the finally block ran

RunIdle == run = NoRun

\* respond / replaceMessage / setTyping / setWorking of createSlackContext are
\* called: the update is chained on updatePromise, so once an update has
\* failed no later call reaches the transport.
CtxHand(r, text) ==
  IF r.ctxBroken THEN r
  ELSE [r EXCEPT !.ctxText = text, !.handed = @ \cup {text}, !.lastHanded = text]

\* `await updatePromise` settles; `ok` is what the transport did.
CtxRejects(r, ok) == r.ctxBroken \/ ~ok

CtxSettle(r, ok) ==
  IF r.ctxBroken THEN r
  ELSE [r EXCEPT !.ctxBroken = ~ok, !.transportFailed = @ \/ ~ok]

\* slack.postMessage / slack.updateMessage is called directly
SlackHand(r, text) == [r EXCEPT !.handed = @ \cup {text}, !.lastHanded = text]

\* FileRunObservability.finish: only a trace that is still active is ended.
finish(r, status) == IF r.trace = "active" THEN [r EXCEPT !.trace = status] ELSE r

\* FileRunObservability.recordTokenUsage with scope "execution"
recordTokenUsage(r, inputTokens, outputTokens) ==
  IF r.trace = "active"
  THEN [r EXCEPT !.executionInputTokens = @ + inputTokens,
                 !.executionOutputTokens = @ + outputTokens]
  ELSE r

isAbortError(err) == err = "BridgeAborted"

\* `if (!isAbortError(err) || !state.stopRequested)` of the catch block
ReportsFailureOnlyIfStopped(err, stopRequested) == ~isAbortError(err) /\ stopRequested

ReportsFailure(err, stopRequested) == ~isAbortError(err) \/ ~stopRequested

\* handleEvent reaches the await named pc: the message of that call is
\* handed over, and handleEvent waits for the call to settle.
Enter(r, pc) ==
  LET r1 == [r EXCEPT !.pc = pc, !.failureCalled = @ \/ (pc = "failureMsg")] IN
  CASE pc = "typing" -> CtxHand(r1, "thinking")
    [] pc = "ack" -> CtxHand(r1, "ack")
    [] pc = "reply" -> CtxHand(r1, "reply")
    [] pc = "failureMsg" -> CtxHand(r1, "failure")
    [] pc \in {"working", "unsetWorking", "failureWorking"} -> CtxHand(r1, r.ctxText)
    [] pc \in {"stopped", "catchStopped"} ->
         [SlackHand(r1, "stopped") EXCEPT !.stopUpdating = r.stopMessageTs]
    [] pc = "executing" -> r1

\* the "_Stopped_" update or post settles
StoppedSettle(r, ok) ==
  [r EXCEPT !.transportFailed = @ \/ ~ok,
            !.stopUpdating = FALSE,
            !.stopMessageTs = IF ok /\ r.stopUpdating THEN FALSE ELSE @]

\* handleEvent is at `await ctx.setTyping(true)` with its trace started.
RunStarted ==
  Enter([NoRun EXCEPT !.running = TRUE, !.trace = "active"], "typing")

\* `if (!hasText && !hasAttachments) return` read without the attachments
IgnoresWithoutText(hasText, hasAttachments) ==
  ~hasText
\* `if (!hasText && !hasAttachments) return`
Ignores(hasText, hasAttachments) ==
  ~hasText /\ ~hasAttachments

\* handleEvent, called on a channel without a pending approval for a message
\* that needs neither clarification nor confirmation, up to its return or
\* its first await: textLen is event.text.trim().length.
HandleEventStart(textLen, attachments) ==
  IF Ignores(textLen > 0, attachments > 0)
  THEN [NoRun EXCEPT !.pc = "ignored", !.attachments = attachments]
  ELSE [RunStarted EXCEPT !.attachments = attachments]

\* the finally block
Finally(r) == [r EXCEPT !.pc = "ended", !.running = FALSE, !.finalMessage = r.lastHanded]

\* `if (state.stopRequested)` at the end of the catch block
AfterReport(r) == IF r.stopRequested THEN Enter(r, "catchStopped") ELSE Finally(r)

\* the catch block up to its first await
Catch(r, err) ==
  LET r1 == [r EXCEPT !.error = err] IN
  IF ReportsFailure(err, r.stopRequested)
  THEN Enter(finish(r1, "failed"), "failureMsg")
  ELSE AfterReport(finish(r1, "cancelled"))

\* `await ctx.setTyping(true)`, `await ctx.replaceMessage(acknowledgement)`,
\* `await ctx.setWorking(true)`: the pending one settles.
RunPrelude(ok) ==
  /\ run.pc \in {"typing", "ack", "working"}
  /\ LET next == CASE run.pc = "typing" -> "ack"
                   [] run.pc = "ack" -> "working"
                   [] run.pc = "working" -> "executing"
     IN run' = IF CtxRejects(run, ok) THEN Catch(CtxSettle(run, ok), "TransportError")
               ELSE Enter(CtxSettle(run, ok), next)
  /\ UNCHANGED runnerVars

\* executePlan is called by handleEvent.
RunExecutePlan ==
  /\ run.pc = "executing"
  /\ ExecutePlan
  /\ UNCHANGED run

\* onStepStatus, called by a bridge request with a status of step `id`: the
\* progress text replaces the message; a failure of that update is raised by
\* the request.
StepStatus(id, ok) ==
  /\ calls[id].state = "pending"
  /\ ~run.stopRequested
  /\ run.statusUpdates < MaxStatusUpdates
  /\ run' = [CtxSettle(CtxHand(run, "progress"), ok) EXCEPT !.statusUpdates = @ + 1]
  /\ IF CtxRejects(run, ok)
     THEN AfterSettle(id, [calls[id] EXCEPT !.state = "rejected",
                                            !.error = "StatusCallbackError"])
     ELSE UNCHANGED <<runnerPc, remaining, completed, results, totalInputTokens,
                      totalOutputTokens, waveGroups, curGroup, calls,
                      dispatchCount, waves, runError, finalText>>
  /\ UNCHANGED <<plan, card, baseTextLen, signalAborted>>

\* executePlan has settled: handleEvent goes on after its await, up to the
\* next await (respondWithNarrative, setWorking or the catch block).
RunContinue ==
  /\ run.pc = "executing"
  /\ runnerPc \in {"done", "failed"}
  /\ run' = IF runnerPc = "done"
            THEN LET r1 == recordTokenUsage(run, totalInputTokens, totalOutputTokens)
                 IN IF ~r1.stopRequested THEN Enter(r1, "reply")
                    ELSE Enter(finish(r1, "cancelled"), "unsetWorking")
            ELSE Catch(run, runError)
  /\ UNCHANGED runnerVars

\* `await this.respondWithNarrative(...)` settles, then finish(runId, "succeeded").
RunReply(ok) ==
  /\ run.pc = "reply"
  /\ run' = IF CtxRejects(run, ok) THEN Catch(CtxSettle(run, ok), "TransportError")
            ELSE Enter(finish(CtxSettle(run, ok), "succeeded"), "unsetWorking")
  /\ UNCHANGED runnerVars

\* `await ctx.setWorking(false)` of the try block settles.
RunUnsetWorking(ok) ==
  /\ run.pc = "unsetWorking"
  /\ LET r == CtxSettle(run, ok) IN
     run' = IF CtxRejects(run, ok) THEN Catch(r, "TransportError")
            ELSE IF r.stopRequested THEN Enter(r, "stopped")
            ELSE Finally(r)
  /\ UNCHANGED runnerVars

\* The "_Stopped_" update or post of the try block settles.
RunStopped(ok) ==
  /\ run.pc = "stopped"
  /\ run' = IF ok THEN Finally(StoppedSettle(run, ok))
            ELSE Catch(StoppedSettle(run, ok), "TransportError")
  /\ UNCHANGED runnerVars

\* `await ctx.replaceMessage(buildFailureMessage(..))` or the
\* `await ctx.setWorking(false)` after it settles, a failure swallowed.
RunFailureMessage(ok) ==
  /\ run.pc \in {"failureMsg", "failureWorking"}
  /\ LET r == CtxSettle(run, ok) IN
     run' = IF run.pc = "failureMsg" /\ ~CtxRejects(run, ok)
            THEN Enter(r, "failureWorking")
            ELSE AfterReport(r)
  /\ UNCHANGED runnerVars

\* The "_Stopped_" update or post of the catch block settles; if it fails
\* handleEvent raises. The finally block runs in both cases.
RunCatchStopped(ok) ==
  /\ run.pc = "catchStopped"
  /\ run' = Finally(StoppedSettle(run, ok))
  /\ UNCHANGED runnerVars

\* handleStop up to its await.  It runs between two steps of handleEvent, not
\* between the settling of executePlan and the continuation of handleEvent;
\* one call is followed at a time.
HandleStop ==
  /\ ~(run.pc = "executing" /\ runnerPc \in {"done", "failed"})
  /\ ~run.stopPosting
  /\ run.stops < MaxStops
  /\ IF run.running
     THEN /\ run' = [SlackHand(run, "stopping") EXCEPT
                       !.stopRequested = TRUE, !.stopPosting = TRUE,
                       !.stops = @ + 1]
          /\ signalAborted' = TRUE
     ELSE /\ run' = [SlackHand(run, "nothing running") EXCEPT !.stops = @ + 1]
          /\ UNCHANGED signalAborted
  /\ UNCHANGED <<plan, card, baseTextLen, runnerPc, remaining, completed, results,
                 totalInputTokens, totalOutputTokens, waveGroups, curGroup, calls,
                 dispatchCount, waves, runError, finalText>>

\* `await slack.postMessage(channelId, "_Stopping..._")` of handleStop settles.
StopPosted(ok) ==
  /\ run.stopPosting
  /\ run' = [run EXCEPT !.stopPosting = FALSE,
                        !.stopMessageTs = IF ok THEN TRUE ELSE @,
                        !.transportFailed = @ \/ ~ok]
  /\ UNCHANGED runnerVars


\* ====================================================================
\* FileRunObservability: the Map `active`, one trace file per run and the
\* metrics file.  Every method is synchronous, so a call is one step.
\* nowIso() is read off the number of calls made so far.
\* ====================================================================
RunIds == {1, 2}
NoTime == -1             \* endedAt absent
ObsChannelId == "C1"
ObsUserId == "U1"

\* A RunTrace; `present` is FALSE for the undefined of active.get(runId).
RunTrace(runId, channelId, userId, startedAt) ==
  [present |-> TRUE, runId |-> runId, channelId |-> channelId, userId |-> userId,
   startedAt |-> startedAt, endedAt |-> NoTime, status |-> "none",
   clarificationTurns |-> 0, confirmationTurns |-> 0, roundTrips |-> 0,
   conversationInputTokens |-> 0, conversationOutputTokens |-> 0,
   executionInputTokens |-> 0, executionOutputTokens |-> 0, events |-> <<>>]

NoTrace == [RunTrace(0, "", "", 0) EXCEPT !.present = FALSE]

\* `if (!trace) return` of every method but startRun
KnownAlways(trace) ==
  TRUE
Known(trace) ==
  trace.present

createEmptyMetrics ==
  [totalRuns |-> 0, succeededRuns |-> 0, failedRuns |-> 0, cancelledRuns |-> 0,
   totalClarificationTurns |-> 0, totalConfirmationTurns |-> 0, totalRoundTrips |-> 0,
   totalConversationInputTokens |-> 0, totalConversationOutputTokens |-> 0,
   totalExecutionInputTokens |-> 0, totalExecutionOutputTokens |-> 0,
   totalDurationMs |-> 0]

\* `parsed.<name> ?? 0`
OrZero(parsed, name) == IF name \in DOMAIN parsed THEN parsed[name] ELSE 0

\* the snapshot of a file that is read without its run counters
readMetricsTotals(file) ==
  IF file = NoFile THEN createEmptyMetrics
  ELSE [name \in DOMAIN createEmptyMetrics |->
          IF name \in {"succeededRuns", "failedRuns", "cancelledRuns"} THEN 0
          ELSE OrZero(file, name)]

readMetrics(file) ==
  IF file = NoFile THEN createEmptyMetrics
  ELSE [name \in DOMAIN createEmptyMetrics |-> OrZero(file, name)]

\* JSON.stringify(trace) as written by writeTrace: the trace as it is now.
writeTrace(files, trace) == [files EXCEPT ![trace.runId] = trace]

\* trace.events.push({at, phase, detail, data})
pushEvent(trace, at, phase) == [trace EXCEPT !.events = Append(@, [at |-> at, phase |-> phase])]

\* The metrics file after bumpMetrics(status, trace).
bumpMetrics(file, status, trace) ==
  LET metrics == readMetrics(file) IN
  [metrics EXCEPT
     !.totalRuns = @ + 1,
     !.succeededRuns = IF status = "succeeded" THEN @ + 1 ELSE @,
     !.failedRuns = IF status = "failed" THEN @ + 1 ELSE @,
     !.cancelledRuns = IF status \notin {"succeeded", "failed"} THEN @ + 1 ELSE @,
     !.totalClarificationTurns = @ + trace.clarificationTurns,
     !.totalConfirmationTurns = @ + trace.confirmationTurns,
     !.totalRoundTrips = @ + trace.roundTrips,
     !.totalConversationInputTokens = @ + trace.conversationInputTokens,
     !.totalConversationOutputTokens = @ + trace.conversationOutputTokens,
     !.totalExecutionInputTokens = @ + trace.executionInputTokens,
     !.totalExecutionOutputTokens = @ + trace.executionOutputTokens,
     !.totalDurationMs = IF trace.endedAt # NoTime
                         THEN @ + Max(0, trace.endedAt - trace.startedAt) ELSE @]

\* this.active.delete(runId)
EvictNever(traces, runId) ==
  traces
Evict(traces, runId) ==
  [traces EXCEPT ![runId] = NoTrace]

\* The bookkeeping of one call: the call counter and what was called.
Called(method, runId) ==
  /\ obsCalls < MaxObsCalls
  /\ obsCalls' = obsCalls + 1
  /\ startedRuns' = IF method = "startRun" THEN startedRuns + 1 ELSE startedRuns
  /\ lastObs' = [method |-> method, runId |-> runId, wasActive |-> active[runId].present]

\* event(runId, phase, ...) where active.get(runId) is `trace`: the event is
\* pushed on the trace in the Map and the trace is written to its file.
EventOn(runId, trace, phase) ==
  LET t == pushEvent(trace, obsCalls, phase)
  IN /\ active' = [active EXCEPT ![runId] = t]
     /\ traceFiles' = writeTrace(traceFiles, t)

StartRun(runId, channelId, userId) ==
  /\ Called("startRun", runId)
  /\ EventOn(runId, RunTrace(runId, channelId, userId, obsCalls), "start")
  /\ UNCHANGED metricsFile

Event(runId, phase) ==
  /\ Called("event", runId)
  /\ IF ~Known(active[runId])
     THEN UNCHANGED <<active, traceFiles>>
     ELSE EventOn(runId, active[runId], phase)
  /\ UNCHANGED metricsFile

MarkClarification(runId) ==
  /\ Called("markClarification", runId)
  /\ IF ~Known(active[runId])
     THEN UNCHANGED <<active, traceFiles>>
     ELSE EventOn(runId, [active[runId] EXCEPT !.clarificationTurns = @ + 1],
                  "clarification")
  /\ UNCHANGED metricsFile

MarkConfirmation(runId) ==
  /\ Called("markConfirmation", runId)
  /\ IF ~Known(active[runId])
     THEN UNCHANGED <<active, traceFiles>>
     ELSE EventOn(runId, [active[runId] EXCEPT !.confirmationTurns = @ + 1],
                  "confirmation")
  /\ UNCHANGED metricsFile

RecordRoundTrip(runId) ==
  /\ Called("recordRoundTrip", runId)
  /\ IF ~Known(active[runId])
     THEN UNCHANGED active
     ELSE active' = [active EXCEPT ![runId].roundTrips = @ + 1]
  /\ UNCHANGED <<traceFiles, metricsFile>>

RecordTokenUsage(runId, scope, inputTokens, outputTokens) ==
  /\ Called("recordTokenUsage", runId)
  /\ IF ~Known(active[runId])
     THEN UNCHANGED active
     ELSE IF scope = "conversation"
     THEN active' = [active EXCEPT ![runId].conversationInputTokens = @ + inputTokens,
                                   ![runId].conversationOutputTokens = @ + outputTokens]
     ELSE active' = [active EXCEPT ![runId].executionInputTokens = @ + inputTokens,
                                   ![runId].executionOutputTokens = @ + outputTokens]
  /\ UNCHANGED <<traceFiles, metricsFile>>

\* finish: status and endedAt, the "finish" event (which writes the trace),
\* writeTrace once more, bumpMetrics, and the id leaves the Map.
Finish(runId, status) ==
  /\ Called("finish", runId)
  /\ IF ~Known(active[runId])
     THEN UNCHANGED <<active, traceFiles, metricsFile>>
     ELSE LET stamped == [active[runId] EXCEPT !.status = status, !.endedAt = obsCalls]
              trace == pushEvent(stamped, obsCalls, "finish")
          IN /\ traceFiles' = writeTrace(writeTrace(traceFiles, trace), trace)
             /\ metricsFile' = bumpMetrics(metricsFile, status, trace)
             /\ active' = Evict([active EXCEPT ![runId] = trace], runId)

NoObsCall == [method |-> "none", runId |-> 0, wasActive |-> FALSE]

ObsIdle ==
  /\ active = [id \in RunIds |-> NoTrace]
  /\ traceFiles = [id \in RunIds |-> NoFile]
  /\ metricsFile = NoFile
  /\ obsCalls = 0
  /\ startedRuns = 0
  /\ lastObs = NoObsCall


\* ------------------------------------------- DefaultModelRouter.resolveRoute
IntentTypes == {"execute", "question", "status", "chat"}

\* A 32-bit unsigned number, kept as two 16-bit halves.
Zero32 == [hi |-> 0, lo |-> 0]

\* `hash = (hash * 31 + seed.charCodeAt(index)) >>> 0`
HashStep(hash, charCode) ==
  LET lo == hash.lo * 31 + charCode
      hi == hash.hi * 31 + lo \div 65536
  IN [hi |-> hi % 65536, lo |-> lo % 65536]

\* the loop of hashSeed from `index` on (indices from 1)
RECURSIVE HashFrom(_, _, _)
HashFrom(hash, seed, index) ==
  IF index > Len(seed) THEN hash
  ELSE HashFrom(HashStep(hash, seed[index]), seed, index + 1)

hashSeed(seed) == HashFrom(Zero32, seed, 1)

\* `hashSeed(seed) % 2 === 0 ? "A" : "B"`
StrategyVariant(hash) == IF hash.lo % 2 = 0 THEN "A" ELSE "B"

ModelRoute(conversationModel, executionModel, strategyVariant) ==
  [conversationModel |-> conversationModel, executionModel |-> executionModel,
   strategyVariant |-> strategyVariant]

NoRoute == ModelRoute("none", "none", "none")

\* resolveRoute with the question branch taken for status and chat only
resolveRouteQuestionFast(intent, seed) ==
  LET strategyVariant == StrategyVariant(hashSeed(seed))
  IN IF intent.intentType \in {"status", "chat", "question"}
     THEN ModelRoute("fast", "fast", strategyVariant)
     ELSE ModelRoute("balanced", "quality", strategyVariant)

\* intent.goalHasKeyword stands for the three `intent.goal.includes(...)`
resolveRoute(intent, seed) ==
  LET strategyVariant == StrategyVariant(hashSeed(seed))
  IN IF intent.intentType = "status" \/ intent.intentType = "chat"
     THEN ModelRoute("fast", "fast", strategyVariant)
     ELSE IF intent.intentType = "question"
     THEN ModelRoute("balanced", "balanced", strategyVariant)
     ELSE IF intent.goalHasKeyword
     THEN ModelRoute("balanced", "quality", strategyVariant)
     ELSE ModelRoute("balanced", "quality", strategyVariant)

\* `const modelRoute = this.modelRouter.resolveRoute(intent, plan.runId)`
ResolveRoute ==
  /\ modelRoute = NoRoute
  /\ modelRoute' = resolveRoute(routeIntent, routeSeed)
  /\ UNCHANGED <<routeIntent, routeSeed>>

RouteIdle ==
  /\ routeIntent = [intentType |-> "chat", goalHasKeyword |-> FALSE]
  /\ routeSeed = <<>>
  /\ modelRoute = NoRoute

\* ------------------------------------------------------ createSlackContext
\* `!isEvent && event.threadTs ? event.threadTs : undefined`, as "is defined"
targetThreadTs(event) == ~event.isEvent /\ event.hasThreadTs

NoOp == [op |-> "none", method |-> "none", call |-> 0, ts |-> 0, where |-> "none", ok |-> TRUE]

Callback(method, arg) == [method |-> method, arg |-> arg, call |-> ctxCalls + 1]

\* `updatePromise = updatePromise.then(...)` put before the callbacks waiting
ThenFirst(pending, callback) == <<callback>> \o pending

\* `updatePromise = updatePromise.then(...)`
Then(pending, callback) == Append(pending, callback)

\* A method chains its callback on updatePromise and awaits it; on a promise
\* that has rejected the callback is never run.
Chained(method, arg) ==
  /\ ctxCalls < MaxCtxCalls
  /\ Len(updatePromise) < MaxPendingCalls
  /\ ctxCalls' = ctxCalls + 1
  /\ IF rejected
     THEN dropped' = TRUE /\ updatePromise' = updatePromise
     ELSE dropped' = dropped /\ updatePromise' = Then(updatePromise, Callback(method, arg))
  /\ UNCHANGED <<ctxEvent, messageTs, isWorking, rejected, mainPosts, mainDeletes, lastEffect, lastOp>>

Respond == Chained("respond", TRUE)

ReplaceMessage == Chained("replaceMessage", TRUE)

SetWorking(working) == Chained("setWorking", working)

DeleteMessage == Chained("deleteMessage", TRUE)

\* setTyping chains only under `isTyping && !messageTs`
SetTyping(isTyping) ==
  IF isTyping /\ messageTs = 0
  THEN Chained("setTyping", isTyping)
  ELSE /\ ctxCalls < MaxCtxCalls
       /\ ctxCalls' = ctxCalls + 1
       /\ UNCHANGED <<ctxEvent, messageTs, isWorking, updatePromise, rejected, mainPosts, mainDeletes, lastEffect, dropped, lastOp>>

Where == IF targetThreadTs(ctxEvent) THEN "thread" ELSE "channel"

\* respondInThread: not chained; `ok` is what the transport did
RespondInThread(ok) ==
  /\ ctxCalls < MaxCtxCalls
  /\ ctxCalls' = ctxCalls + 1
  /\ lastOp' = IF targetThreadTs(ctxEvent)
               THEN [op |-> "reply", method |-> "respondInThread", call |-> ctxCalls + 1,
                     ts |-> 0, where |-> "thread", ok |-> ok]
               ELSE lastOp
  /\ UNCHANGED <<ctxEvent, messageTs, isWorking, updatePromise, rejected, mainPosts, mainDeletes, lastEffect, dropped>>

\* what the callback of a method asks of the transport
TransportOp(callback) ==
  CASE callback.method \in {"respond", "replaceMessage"} ->
         IF messageTs # 0 THEN "update" ELSE "post"
    [] callback.method = "setTyping" -> IF messageTs # 0 THEN "none" ELSE "post"
    [] callback.method = "setWorking" -> IF messageTs # 0 THEN "update" ELSE "none"
    [] callback.method = "deleteMessage" -> IF messageTs # 0 THEN "delete" ELSE "none"

\* The first callback waiting on updatePromise runs to its end; `ok` is what
\* the transport did with its call. A rejection skips every callback chained
\* behind it.
UpdateSettles(ok) ==
  /\ updatePromise # <<>>
  /\ LET callback == Head(updatePromise)
         op == TransportOp(callback)
         ts == IF op = "post" THEN mainPosts + 1 ELSE messageTs
     IN /\ lastEffect' = callback.call
        /\ isWorking' = IF callback.method = "setWorking" THEN callback.arg ELSE isWorking
        /\ IF op = "none"
           THEN /\ updatePromise' = Tail(updatePromise)
                /\ UNCHANGED <<messageTs, rejected, mainPosts, mainDeletes, dropped, lastOp>>
           ELSE /\ lastOp' = [op |-> op, method |-> callback.method, call |-> callback.call,
                              ts |-> ts, where |-> IF op = "post" THEN Where ELSE "none",
                              ok |-> ok]
                /\ IF ok
                   THEN /\ updatePromise' = Tail(updatePromise)
                        /\ messageTs' = IF op = "delete" THEN 0 ELSE ts
                        /\ mainPosts' = mainPosts + (IF op = "post" THEN 1 ELSE 0)
                        /\ mainDeletes' = mainDeletes + (IF op = "delete" THEN 1 ELSE 0)
                        /\ UNCHANGED <<rejected, dropped>>
                   ELSE /\ updatePromise' = <<>>
                        /\ rejected' = TRUE
                        /\ dropped' = (dropped \/ Tail(updatePromise) # <<>>)
                        /\ UNCHANGED <<messageTs, mainPosts, mainDeletes>>
  /\ UNCHANGED <<ctxEvent, ctxCalls>>

\* ------------------------------------------------- splitTextIntoChunks
Letter == "a"
Space == " "
Newline == "\n"
Characters == {Letter, Space, Newline}
WhiteSpace == {Space, Newline}

RECURSIVE trimStart(_)
trimStart(text) ==
  IF text # <<>> /\ Head(text) \in WhiteSpace THEN trimStart(Tail(text)) ELSE text

RECURSIVE trimEnd(_)
trimEnd(text) ==
  IF text # <<>> /\ text[Len(text)] \in WhiteSpace
  THEN trimEnd(SubSeq(text, 1, Len(text) - 1))
  ELSE text

trim(text) == trimEnd(trimStart(text))

\* `text.lastIndexOf(pattern, position)`: the last index (from 0) at or
\* before position where pattern starts, -1 when there is none
lastIndexOf(text, pattern, position) ==
  LET last == IF position < Len(text) - Len(pattern) THEN position ELSE Len(text) - Len(pattern)
      found == {i \in 0..last : SubSeq(text, i + 1, i + Len(pattern)) = pattern}
  IN IF found = {} THEN -1 ELSE CHOOSE i \in found : \A j \in found : j <= i

\* where the while loop of splitTextIntoChunks cuts `remaining`
SplitIndex(rest, maxLength) ==
  LET paragraph == lastIndexOf(rest, <<Newline, Newline>>, maxLength)
      line == IF paragraph < (maxLength * 4) \div 10
              THEN lastIndexOf(rest, <<Newline>>, maxLength)
              ELSE paragraph
      word == IF line < (maxLength * 6) \div 10
              THEN lastIndexOf(rest, <<Space>>, maxLength)
              ELSE line
  IN IF word <= 0 THEN maxLength ELSE word

RECURSIVE SplitLoop(_, _, _)
SplitLoop(chunks, rest, maxLength) ==
  IF Len(rest) > maxLength
  THEN LET splitIndex == SplitIndex(rest, maxLength)
       IN SplitLoop(Append(chunks, trimEnd(SubSeq(rest, 1, splitIndex))),
                    trimStart(SubSeq(rest, splitIndex + 1, Len(rest))),
                    maxLength)
  ELSE IF Len(rest) > 0 THEN Append(chunks, rest) ELSE chunks

splitTextIntoChunks(text, maxLength) ==
  IF Len(text) <= maxLength
  THEN <<text>>
  ELSE LET chunks == SplitLoop(<<>>, text, maxLength)
       IN IF Len(chunks) > 0 THEN chunks ELSE <<text>>

\* ------------------------------------------ MomRunService.respondWithNarrative
NoNarrative == [pc |-> "idle", chunks |-> 0, index |-> 0, call |-> 0, delivered |-> <<>>]

\* The first call of respondWithNarrative: respond for an empty narrative
\* or a single chunk, replaceMessage(chunks[0]) for more, then the await.
RespondWithNarrative(text) ==
  /\ narrative.pc = "idle"
  /\ LET chunks == splitTextIntoChunks(text, SLACK_REPLY_CHUNK_SIZE)
         single == Len(trim(text)) = 0 \/ Len(chunks) = 1
     IN /\ IF single THEN Respond ELSE ReplaceMessage
        /\ narrative' = [pc |-> IF rejected THEN "threw" ELSE "awaiting",
                         chunks |-> IF Len(trim(text)) = 0 THEN 0 ELSE Len(chunks),
                         index |-> 0, call |-> ctxCalls + 1, delivered |-> <<>>]

\* `await updatePromise` of the first call returns or throws
NarrativeResumes ==
  /\ narrative.pc = "awaiting"
  /\ lastEffect >= narrative.call \/ rejected
  /\ LET ran == lastEffect > narrative.call \/ (lastEffect = narrative.call /\ ~rejected)
     IN narrative' =
          IF ~ran THEN [narrative EXCEPT !.pc = "threw"]
          ELSE [narrative EXCEPT !.pc = IF narrative.chunks > 1 THEN "loop" ELSE "done",
                                 !.index = 1,
                                 !.delivered = IF narrative.chunks >= 1 THEN <<1>> ELSE <<>>]
  /\ UNCHANGED <<ctxEvent, messageTs, isWorking, updatePromise, rejected, ctxCalls, mainPosts, mainDeletes, lastEffect, dropped, lastOp>>

\* One turn of `for (index = 1; index < chunks.length; index += 1)`:
\* `await ctx.respondInThread(header + chunks[index])`
NarrativeNextChunk(ok) ==
  /\ narrative.pc = "loop"
  /\ RespondInThread(ok)
  /\ LET posted == targetThreadTs(ctxEvent)
         index == narrative.index + 1
     IN narrative' =
          IF posted /\ ~ok THEN [narrative EXCEPT !.pc = "threw"]
          ELSE [narrative EXCEPT !.index = index,
                                 !.pc = IF index < narrative.chunks THEN "loop" ELSE "done",
                                 !.delivered = IF posted THEN Append(@, index) ELSE @]

CtxIdle ==
  /\ ctxEvent = [isEvent |-> FALSE, hasThreadTs |-> FALSE]
  /\ messageTs = 0
  /\ isWorking = TRUE
  /\ updatePromise = <<>>
  /\ rejected = FALSE
  /\ ctxCalls = 0
  /\ mainPosts = 0
  /\ mainDeletes = 0
  /\ lastEffect = 0
  /\ dropped = FALSE
  /\ lastOp = NoOp
  /\ narrative = NoNarrative

\* --------------------------------------------- SlackBot.setupEventHandlers
shouldProcessAppMention == FALSE

shouldProcessMessageEvent(isDM, isBotMention) == ~isDM

NotCalled == "not called"
Policy(result) == IF result THEN "process" ELSE "ignore"

Inbound(kind, event, policy, isLogged, isEnqueued) ==
  [kind |-> kind, event |-> event, policy |-> policy, logged |-> isLogged,
   enqueued |-> isEnqueued]

\* a handler has run to its end: every path calls ack() once
Handles(inbound) ==
  /\ acks < MaxInbound
  /\ acks' = acks + 1
  /\ logged' = logged + (IF inbound.logged THEN 1 ELSE 0)
  /\ enqueued' = enqueued + (IF inbound.enqueued THEN 1 ELSE 0)
  /\ lastInbound' = inbound

\* socketClient.on("app_mention", ...): old is `startupTs && e.ts < startupTs`
OnAppMention(old) ==
  LET e == [old |-> old]
  IN Handles(IF ~shouldProcessAppMention
             THEN Inbound("app_mention", e, Policy(shouldProcessAppMention), FALSE, FALSE)
             ELSE IF old
             THEN Inbound("app_mention", e, Policy(shouldProcessAppMention), TRUE, FALSE)
             ELSE Inbound("app_mention", e, Policy(shouldProcessAppMention), TRUE, TRUE))

\* socketClient.on("message", ...): e.fromBot is `e.bot_id || !e.user ||
\* e.user === this.botUserId`, e.isDM is `e.channel_type === "im"`
OnMessage(e) ==
  LET policy == Policy(shouldProcessMessageEvent(e.isDM, e.isBotMention))
  IN Handles(IF e.fromBot
             THEN Inbound("message", e, NotCalled, FALSE, FALSE)
             ELSE IF e.subtype # "none" /\ e.subtype # "file_share"
             THEN Inbound("message", e, NotCalled, FALSE, FALSE)
             ELSE IF ~e.hasText /\ ~e.hasFiles
             THEN Inbound("message", e, NotCalled, FALSE, FALSE)
             ELSE IF e.old
             THEN Inbound("message", e, NotCalled, TRUE, FALSE)
             ELSE IF ~shouldProcessMessageEvent(e.isDM, e.isBotMention)
             THEN Inbound("message", e, policy, TRUE, FALSE)
             ELSE Inbound("message", e, policy, TRUE, TRUE))

NoInbound == Inbound("none", [old |-> FALSE], NotCalled, FALSE, FALSE)

SlackIdle ==
  /\ acks = 0
  /\ logged = 0
  /\ enqueued = 0
  /\ lastInbound = NoInbound


\* ---------------------------------------------------- inputs of executePlan
GenericWorkers == <<"planner", "coder", "reviewer", "tester", "docs", "synthesizer">>
GenericWorker(i) == GenericWorkers[((i - 1) % Len(GenericWorkers)) + 1]
GenericSummaryLen(i) == <<7, 9, 7, 7, 6, 6>>[((i - 1) % Len(GenericWorkers)) + 1]

\* dependsOn of a generated step: nothing, or one id, which may be the step
\* itself, a later step (so cycles occur) or an id that names no step.
DepChoices(n) == {{}} \cup {{d} : d \in (1..n) \cup {MissingId}}
\* parallelGroup of a generated step: steps 2 and 3 may carry "verify".
GroupChoices(i) == IF i \in {2, 3} THEN {NoGroup, "verify"} ELSE {NoGroup}

GenericPlans ==
  UNION { { [runIdLen |-> UuidLen,
             steps |-> [i \in 1..n |->
                          Step(i, GenericWorker(i), GenericSummaryLen(i), deps[i], grp[i])]]
            : deps \in [1..n -> DepChoices(n)],
              grp \in {g \in [1..n -> {NoGroup, "verify"}] :
                         \A i \in 1..n : g[i] \in GroupChoices(i)} }
          : n \in 0..MaxSteps }

ObjectiveLens == {20}
\* plans whose synthesizer steps are not the last step, or are several
SynthesizerFirst ==
  [runIdLen |-> UuidLen,
   steps |-> << Step(1, "synthesizer", 6, {}, NoGroup), Step(2, "docs", 6, {1}, NoGroup) >>]
SynthesizerTwice ==
  [runIdLen |-> UuidLen,
   steps |-> << Step(1, "synthesizer", 6, {}, NoGroup),
                Step(2, "synthesizer", 6, {1}, NoGroup),
                Step(3, "coder", 9, {2}, NoGroup) >>]
RunnerPlans ==
  GenericPlans \cup {buildPlan("execute", 20), buildPlan("question", 20),
                     SynthesizerFirst, SynthesizerTwice}

TokenBudgets == {1, 200, 12000}
RunnerCards == {[objectiveLen |-> o, riskLevel |-> "medium", doneCriteriaLen |-> 28,
                 tokenBudget |-> b, timeoutMs |-> 600000]
                  : o \in ObjectiveLens, b \in TokenBudgets}
BaseTextLens == {60}
ResponseLens == {4, 900}


\* what a submission found and did: via is the method called, size and busy
\* are queue.size() and the processing flag before the call
Enqueued(via, c, accepted) ==
  [via |-> via, channel |-> c, size |-> Len(queue[c]), busy |-> processing[c],
   accepted |-> accepted]

NoEnqueue == [via |-> "none", channel |-> "none", size |-> 0, busy |-> FALSE, accepted |-> FALSE]

QueueIdle ==
  /\ queue = [c \in Channels |-> <<>>]
  /\ processing = [c \in Channels |-> FALSE]
  /\ activeWork = [c \in Channels |-> {}]
  /\ startedLog = [c \in Channels |-> <<>>]
  /\ enqueuedLog = [c \in Channels |-> <<>>]
  /\ lastEnqueue = NoEnqueue

InitRunner ==
  /\ QueueIdle
  /\ BridgeIdle
  /\ GateIdle
  /\ RunIdle
  /\ ObsIdle /\ RouteIdle /\ SlackIdle /\ CtxIdle
  /\ plan \in RunnerPlans
  /\ card \in RunnerCards
  /\ baseTextLen \in BaseTextLens
  /\ runnerPc = "idle"
  /\ remaining = {}
  /\ completed = {}
  /\ results = <<>>
  /\ totalInputTokens = 0
  /\ totalOutputTokens = 0
  /\ waveGroups = <<>>
  /\ curGroup = <<>>
  /\ calls = [id \in StepIds(EffectivePlan(plan)) |-> NoCall]
  /\ dispatchCount = [id \in StepIds(EffectivePlan(plan)) |-> 0]
  /\ waves = 0
  /\ runError = "none"
  /\ finalText = NoText
  /\ signalAborted = FALSE

\* The variables of the other components stay as they are.
RunnerOnly == UNCHANGED <<bridgeVars, queueVars, gateVars, runVars, obsVars, routeVars, slackVars, ctxVars>>

NextRunner ==
  \/ ExecutePlan /\ RunnerOnly
  \/ \E id \in DOMAIN calls, len \in ResponseLens : BridgeResolves(id, len) /\ RunnerOnly
  \/ \E id \in DOMAIN calls, err \in BridgeErrors : BridgeRejects(id, err) /\ RunnerOnly
  \/ AbortRun /\ RunnerOnly

SpecRunner == InitRunner /\ [][NextRunner]_vars

\* ====================================================================
\* ChannelQueue and the places of SlackBot that submit work to it
\* ====================================================================
QueueFullAt == 5         \* enqueueEvent: `queue.size() >= 5`

\* a processNext that does not test the processing flag
ProcessNextReturnsOnEmptyOnly(proc, q) == Len(q) = 0

\* processNext returns at once: `if (this.processing || this.queue.length === 0)`
ProcessNextReturns(proc, q) == proc \/ Len(q) = 0

\* processNext of channel c on queue contents q with flag proc: either it
\* returns, or it takes the first item and calls work(), that is handleEvent.
ProcessNext(c, proc, q) ==
  IF ProcessNextReturns(proc, q)
  THEN /\ processing' = [processing EXCEPT ![c] = proc]
       /\ queue' = [queue EXCEPT ![c] = q]
       /\ startedLog' = startedLog
       /\ activeWork' = activeWork
  ELSE /\ processing' = [processing EXCEPT ![c] = TRUE]
       /\ queue' = [queue EXCEPT ![c] = Tail(q)]
       /\ startedLog' = [startedLog EXCEPT ![c] = Append(@, Head(q))]
       /\ activeWork' = [activeWork EXCEPT ![c] = @ \cup {Head(q)}]

NewItem(c, kind) == [n |-> Len(enqueuedLog[c]) + 1, kind |-> kind]

\* ChannelQueue.enqueue from the "app_mention" and "message" handlers.
EnqueueMessage(c) ==
  /\ enqueuedLog' = [enqueuedLog EXCEPT ![c] = Append(@, NewItem(c, "message"))]
  /\ lastEnqueue' = Enqueued("enqueue", c, TRUE)
  /\ ProcessNext(c, processing[c], Append(queue[c], NewItem(c, "message")))

\* an enqueueEvent that also turns the event down while work is in progress
QueueIsFullOrBusy(proc, q) == proc \/ Len(q) >= QueueFullAt

\* `if (queue.size() >= 5)`
QueueIsFull(proc, q) == Len(q) >= QueueFullAt

\* SlackBot.enqueueEvent: discards the event when the queue is full.
EnqueueEvent(c) ==
  IF QueueIsFull(processing[c], queue[c])
  THEN /\ lastEnqueue' = Enqueued("enqueueEvent", c, FALSE)
       /\ UNCHANGED <<queue, processing, activeWork, startedLog, enqueuedLog>>
  ELSE /\ enqueuedLog' = [enqueuedLog EXCEPT ![c] = Append(@, NewItem(c, "event"))]
       /\ lastEnqueue' = Enqueued("enqueueEvent", c, TRUE)
       /\ ProcessNext(c, processing[c], Append(queue[c], NewItem(c, "event")))

\* The promise of work() settles (handleEvent returned or threw; processNext
\* catches the error): processing is reset and processNext runs again.
WorkSettles(c, item) ==
  /\ item \in activeWork[c]
  /\ enqueuedLog' = enqueuedLog
  /\ lastEnqueue' = lastEnqueue
  /\ LET q == queue[c] IN
     IF ProcessNextReturns(FALSE, q)
     THEN /\ processing' = [processing EXCEPT ![c] = FALSE]
          /\ queue' = queue
          /\ startedLog' = startedLog
          /\ activeWork' = [activeWork EXCEPT ![c] = @ \ {item}]
     ELSE /\ processing' = [processing EXCEPT ![c] = TRUE]
          /\ queue' = [queue EXCEPT ![c] = Tail(q)]
          /\ startedLog' = [startedLog EXCEPT ![c] = Append(@, Head(q))]
          /\ activeWork' = [activeWork EXCEPT ![c] = (@ \ {item}) \cup {Head(q)}]

\* The runner variables while no plan is executed.
RunnerParked ==
  /\ plan = [runIdLen |-> UuidLen, steps |-> <<>>]
  /\ card \in {c \in RunnerCards : c.tokenBudget = 12000}
  /\ baseTextLen = 0
  /\ runnerPc = "idle"
  /\ remaining = {}
  /\ completed = {}
  /\ results = <<>>
  /\ totalInputTokens = 0
  /\ totalOutputTokens = 0
  /\ waveGroups = <<>>
  /\ curGroup = <<>>
  /\ calls = [id \in {FallbackId} |-> NoCall]
  /\ dispatchCount = [id \in {FallbackId} |-> 0]
  /\ waves = 0
  /\ runError = "none"
  /\ finalText = NoText
  /\ signalAborted = FALSE

InitQueue == QueueIdle /\ BridgeIdle /\ GateIdle /\ RunnerParked /\ RunIdle /\ ObsIdle /\ RouteIdle /\ SlackIdle /\ CtxIdle

QueueOnly == UNCHANGED <<runnerVars, bridgeVars, gateVars, runVars, obsVars, routeVars, slackVars, ctxVars>>

Submitted(c) == Len(enqueuedLog[c])

NextQueue ==
  \/ \E c \in Channels : Submitted(c) < MaxQueued /\ EnqueueMessage(c) /\ QueueOnly
  \/ \E c \in Channels : Submitted(c) < MaxQueued /\ EnqueueEvent(c) /\ QueueOnly
  \/ \E c \in Channels : \E item \in activeWork[c] : WorkSettles(c, item) /\ QueueOnly

SpecQueue == InitQueue /\ [][NextQueue]_vars

\* ---------------------------------------------- the queues when they fill up
RECURSIVE SubmittedTo(_)
SubmittedTo(cs) ==
  IF cs = {} THEN 0
  ELSE LET c == CHOOSE x \in cs : TRUE IN Submitted(c) + SubmittedTo(cs \ {c})

InitEvents == QueueIdle /\ BridgeIdle /\ GateIdle /\ RunnerParked /\ RunIdle /\ ObsIdle /\ RouteIdle /\ SlackIdle /\ CtxIdle

NextEvents ==
  \/ \E c \in Channels : SubmittedTo(Channels) < MaxSubmitted /\ EnqueueMessage(c) /\ QueueOnly
  \/ \E c \in Channels : SubmittedTo(Channels) < MaxSubmitted /\ EnqueueEvent(c) /\ QueueOnly
  \/ \E c \in Channels : \E item \in activeWork[c] : WorkSettles(c, item) /\ QueueOnly

SpecEvents == InitEvents /\ [][NextEvents]_vars

\* ------------------------------------------------- the bridge on its own
WorkerTextLens == {0, 40}

InitBridge == QueueIdle /\ BridgeIdle /\ GateIdle /\ RunnerParked /\ RunIdle /\ ObsIdle /\ RouteIdle /\ SlackIdle /\ CtxIdle

BridgeOnly == UNCHANGED <<runnerVars, queueVars, gateVars, runVars, obsVars, routeVars, slackVars, ctxVars>>

NextBridge ==
  \/ \E id \in CallIds, withOnStatus \in BOOLEAN, timeoutMs \in TaskTimeouts : ClientRequest(id, withOnStatus, timeoutMs) /\ BridgeOnly
  \/ \E id \in CallIds : ReceivedStatusReturns(id) /\ BridgeOnly
  \/ \E id \in CallIds : ReceivedStatusThrows(id) /\ BridgeOnly
  \/ \E id \in CallIds : PollIteration(id) /\ BridgeOnly
  \/ \E id \in CallIds : StatusCallbackReturns(id) /\ BridgeOnly
  \/ \E id \in CallIds : StatusCallbackThrows(id) /\ BridgeOnly
  \/ \E id \in CallIds : ClientCleanup(id) /\ BridgeOnly
  \/ Tick /\ BridgeOnly
  \/ AbortSignal /\ UNCHANGED <<queueVars, gateVars, runVars, obsVars, routeVars, slackVars, ctxVars>>
  \/ WorkerAccept /\ BridgeOnly
  \/ \E accepted \in BOOLEAN : WorkerSubmit(accepted) /\ BridgeOnly
  \/ BeforeAgentStart /\ BridgeOnly
  \/ ToolCall /\ BridgeOnly
  \/ \E len \in WorkerTextLens, isError \in BOOLEAN : MessageEnd(len, isError) /\ BridgeOnly
  \/ AgentEnd /\ BridgeOnly
  \/ FinalizeRequest /\ BridgeOnly
  \/ SessionShutdown /\ BridgeOnly
  \/ SessionStart /\ BridgeOnly

SpecBridge == InitBridge /\ [][NextBridge]_vars

\* ------------------------- the client under a scheduler that lets it run
\* Time advances, the event loop runs the client's continuations and the
\* status callback settles; nothing is assumed of the worker.
NextPolling ==
  \/ \E id \in CallIds, withOnStatus \in BOOLEAN, timeoutMs \in {ClientTimeoutMs} : ClientRequest(id, withOnStatus, timeoutMs) /\ BridgeOnly
  \/ \E id \in CallIds : ReceivedStatusReturns(id) /\ BridgeOnly
  \/ \E id \in CallIds : ReceivedStatusThrows(id) /\ BridgeOnly
  \/ \E id \in CallIds : PollIteration(id) /\ BridgeOnly
  \/ \E id \in CallIds : StatusCallbackReturns(id) /\ BridgeOnly
  \/ \E id \in CallIds : StatusCallbackThrows(id) /\ BridgeOnly
  \/ \E id \in CallIds : ClientCleanup(id) /\ BridgeOnly
  \/ Tick /\ BridgeOnly
  \/ TickAtHorizon /\ BridgeOnly
  \/ AbortSignal /\ UNCHANGED <<queueVars, gateVars, runVars, obsVars, routeVars, slackVars, ctxVars>>
  \/ WorkerAccept /\ BridgeOnly
  \/ RemoveUnreadableRequest /\ BridgeOnly
  \/ \E accepted \in BOOLEAN : WorkerSubmit(accepted) /\ BridgeOnly
  \/ BeforeAgentStart /\ BridgeOnly
  \/ ToolCall /\ BridgeOnly
  \/ \E len \in {40}, isError \in BOOLEAN : MessageEnd(len, isError) /\ BridgeOnly
  \/ AgentEnd /\ BridgeOnly
  \/ FinalizeRequest /\ BridgeOnly
  \/ SessionShutdown /\ BridgeOnly
  \/ SessionStart /\ BridgeOnly

ClientRuns(id) ==
  /\ WF_vars(PollIteration(id) /\ BridgeOnly)
  /\ WF_vars((StatusCallbackReturns(id) \/ StatusCallbackThrows(id)) /\ BridgeOnly)
  /\ WF_vars(ClientCleanup(id) /\ BridgeOnly)

SpecPolling ==
  /\ InitBridge
  /\ [][NextPolling]_vars
  /\ WF_vars((Tick \/ TickAtHorizon) /\ BridgeOnly)
  /\ \A id \in CallIds : ClientRuns(id)

\* ------------------------------------- the worker and several requests
InitWorker == QueueIdle /\ BridgeIdle /\ GateIdle /\ RunnerParked /\ RunIdle /\ ObsIdle /\ RouteIdle /\ SlackIdle /\ CtxIdle

NextWorker ==
  \/ \E id \in RequestIds : RequestWritten(id) /\ BridgeOnly
  \/ WorkerAccept /\ BridgeOnly
  \/ \E accepted \in BOOLEAN : WorkerSubmit(accepted) /\ BridgeOnly
  \/ BeforeAgentStart /\ BridgeOnly
  \/ ToolCall /\ BridgeOnly
  \/ \E len \in WorkerTextLens, isError \in BOOLEAN : MessageEnd(len, isError) /\ BridgeOnly
  \/ AgentEnd /\ BridgeOnly
  \/ FinalizeRequest /\ BridgeOnly
  \/ SessionShutdown /\ BridgeOnly
  \/ SessionStart /\ BridgeOnly

SpecWorker == InitWorker /\ [][NextWorker]_vars

\* --------------------------------------------------- the gate on its own
\* Who sends an event and in which thread.
Senders == {<<"U1", NoThread>>, <<"U1", TsBase>>, <<"U2", NoThread>>}
\* The first two events can create a pending approval: its token is 1 or 2.
EventTokens == {1, 2, NoToken}
EventTexts ==
  {TextDeploy, TextDropTable, TextDrop, TextHowDelete, TextFormat, TextBlank}
    \cup {TextConfirm(t) : t \in EventTokens}
    \cup {TextCancel(t) : t \in EventTokens}
Deltas == {1, 2999, CONFIRMATION_REMINDER_DEBOUNCE_MS, EXECUTION_CONFIRMATION_TTL_MS}

InitGate == QueueIdle /\ BridgeIdle /\ GateIdle /\ RunnerParked /\ RunIdle /\ ObsIdle /\ RouteIdle /\ SlackIdle /\ CtxIdle

GateOnly == UNCHANGED <<runnerVars, bridgeVars, queueVars, runVars, obsVars, routeVars, slackVars, ctxVars>>

NextGate ==
  \/ \E c \in GateChannels, sender \in Senders, text \in EventTexts, delta \in Deltas :
        HandleEvent(c, sender[1], sender[2], text, delta) /\ GateOnly
  \/ \E c \in GateChannels : ExecutionSettles(c) /\ GateOnly

SpecGate == InitGate /\ [][NextGate]_vars

\* ----------------------------------------------------- a run on its own
\* The plans a run executes: the two plans of buildPlan, the empty plan that
\* handleEvent passes when the request has none, two steps of one parallel
\* group, and a plan whose second step can never become ready.
ParallelPair ==
  [runIdLen |-> UuidLen,
   steps |-> <<Step(1, "reviewer", 7, {}, "verify"), Step(2, "tester", 7, {}, "verify")>>]

StuckPair ==
  [runIdLen |-> UuidLen,
   steps |-> <<Step(1, "planner", 7, {}, NoGroup), Step(2, "coder", 9, {MissingId}, NoGroup)>>]

RunPlans ==
  {buildPlan("execute", 20), buildPlan("question", 20),
   [runIdLen |-> UuidLen, steps |-> <<>>], ParallelPair, StuckPair}

\* a plain message or event trigger, an attachment-only message, an empty one
RunMessages ==
  {[textLen |-> 60, attachments |-> 0], [textLen |-> 0, attachments |-> 1],
   [textLen |-> 0, attachments |-> 0]}

\* buildIntent makes a message without text an execute intent
PlansFor(message) == IF message.textLen > 0 THEN RunPlans ELSE {buildPlan("execute", 20)}

InitRun ==
  /\ QueueIdle
  /\ BridgeIdle
  /\ GateIdle
  /\ ObsIdle /\ RouteIdle /\ SlackIdle /\ CtxIdle
  /\ card \in RunnerCards
  /\ \E message \in RunMessages :
       /\ plan \in PlansFor(message)
       /\ baseTextLen = message.textLen
       /\ run = HandleEventStart(message.textLen, message.attachments)
  /\ runnerPc = "idle"
  /\ remaining = {}
  /\ completed = {}
  /\ results = <<>>
  /\ totalInputTokens = 0
  /\ totalOutputTokens = 0
  /\ waveGroups = <<>>
  /\ curGroup = <<>>
  /\ calls = [id \in StepIds(EffectivePlan(plan)) |-> NoCall]
  /\ dispatchCount = [id \in StepIds(EffectivePlan(plan)) |-> 0]
  /\ waves = 0
  /\ runError = "none"
  /\ finalText = NoText
  /\ signalAborted = FALSE

RunOnly == UNCHANGED <<bridgeVars, queueVars, gateVars, obsVars, routeVars, slackVars, ctxVars>>

NextRun ==
  \/ \E ok \in BOOLEAN : RunPrelude(ok) /\ RunOnly
  \/ RunExecutePlan /\ RunOnly
  \/ \E id \in DOMAIN calls, len \in ResponseLens : BridgeResolves(id, len) /\ UNCHANGED run /\ RunOnly
  \/ \E id \in DOMAIN calls, err \in BridgeErrors : BridgeRejects(id, err) /\ UNCHANGED run /\ RunOnly
  \/ \E id \in DOMAIN calls, ok \in BOOLEAN : StepStatus(id, ok) /\ RunOnly
  \/ RunContinue /\ RunOnly
  \/ \E ok \in BOOLEAN : RunReply(ok) /\ RunOnly
  \/ \E ok \in BOOLEAN : RunUnsetWorking(ok) /\ RunOnly
  \/ \E ok \in BOOLEAN : RunStopped(ok) /\ RunOnly
  \/ \E ok \in BOOLEAN : RunFailureMessage(ok) /\ RunOnly
  \/ \E ok \in BOOLEAN : RunCatchStopped(ok) /\ RunOnly
  \/ HandleStop /\ RunOnly
  \/ \E ok \in BOOLEAN : StopPosted(ok) /\ RunOnly

SpecRun == InitRun /\ [][NextRun]_vars

\* ------------------------------------------- calls on FileRunObservability
EventPhases == {"execution"}
TokenCounts == {0, 7}
RunStatuses == {"succeeded", "failed", "cancelled"}

InitObs == QueueIdle /\ BridgeIdle /\ GateIdle /\ RunnerParked /\ RunIdle /\ ObsIdle /\ RouteIdle /\ SlackIdle /\ CtxIdle

ObsOnly == UNCHANGED <<runnerVars, bridgeVars, queueVars, gateVars, runVars, routeVars, slackVars, ctxVars>>

NextObs ==
  \/ \E runId \in RunIds : StartRun(runId, ObsChannelId, ObsUserId) /\ ObsOnly
  \/ \E runId \in RunIds, phase \in EventPhases : Event(runId, phase) /\ ObsOnly
  \/ \E runId \in RunIds : MarkClarification(runId) /\ ObsOnly
  \/ \E runId \in RunIds : MarkConfirmation(runId) /\ ObsOnly
  \/ \E runId \in RunIds : RecordRoundTrip(runId) /\ ObsOnly
  \/ \E runId \in RunIds, scope \in {"conversation", "execution"}, n \in TokenCounts : RecordTokenUsage(runId, scope, n, 7 - n) /\ ObsOnly
  \/ \E runId \in RunIds, status \in RunStatuses : Finish(runId, status) /\ ObsOnly

SpecObs == InitObs /\ [][NextObs]_vars

\* ------------------------------- observability over an existing metrics file
\* metrics.json as a process can find it: absent, or holding the counters of
\* earlier runs (here without the fields that were still 0).
MetricsFiles ==
  {NoFile,
   [totalRuns |-> 2, succeededRuns |-> 1, cancelledRuns |-> 1, totalRoundTrips |-> 3,
    totalDurationMs |-> 4]}

InitMetrics ==
  /\ QueueIdle /\ BridgeIdle /\ GateIdle /\ RunnerParked /\ RunIdle /\ RouteIdle /\ SlackIdle /\ CtxIdle
  /\ active = [id \in RunIds |-> NoTrace]
  /\ traceFiles = [id \in RunIds |-> NoFile]
  /\ metricsFile \in MetricsFiles
  /\ obsCalls = 0
  /\ startedRuns = 0
  /\ lastObs = NoObsCall

NextMetrics ==
  \/ \E runId \in RunIds : StartRun(runId, ObsChannelId, ObsUserId) /\ ObsOnly
  \/ \E runId \in RunIds, phase \in EventPhases : Event(runId, phase) /\ ObsOnly
  \/ \E runId \in RunIds : MarkClarification(runId) /\ ObsOnly
  \/ \E runId \in RunIds : MarkConfirmation(runId) /\ ObsOnly
  \/ \E runId \in RunIds : RecordRoundTrip(runId) /\ ObsOnly
  \/ \E runId \in RunIds, scope \in {"conversation", "execution"}, n \in TokenCounts : RecordTokenUsage(runId, scope, n, 7 - n) /\ ObsOnly
  \/ \E runId \in RunIds, status \in RunStatuses : Finish(runId, status) /\ ObsOnly

SpecMetrics == InitMetrics /\ [][NextMetrics]_vars

\* ----------------------------------------------------------- SpecRoute
\* char codes of "0" and "a"
SeedChars == {48, 97}

RECURSIVE SeedsOfLen(_)
SeedsOfLen(n) ==
  IF n = 0 THEN {<<>>}
  ELSE {Append(seed, c) : seed \in SeedsOfLen(n - 1), c \in SeedChars}

Seeds == UNION {SeedsOfLen(n) : n \in 0..MaxSeedLen}

Intents == [intentType : IntentTypes, goalHasKeyword : BOOLEAN]

InitRoute ==
  /\ QueueIdle /\ BridgeIdle /\ GateIdle /\ RunnerParked /\ RunIdle /\ ObsIdle /\ SlackIdle /\ CtxIdle
  /\ routeIntent \in Intents
  /\ routeSeed \in Seeds
  /\ modelRoute = NoRoute

RouteOnly == UNCHANGED <<runnerVars, bridgeVars, queueVars, gateVars, runVars, obsVars, slackVars, ctxVars>>

NextRoute == ResolveRoute /\ RouteOnly

SpecRoute == InitRoute /\ [][NextRoute]_vars

\* ----------------------------------------------------------- SpecSlack
MessageEvents ==
  {e \in [fromBot : BOOLEAN, subtype : {"none", "file_share", "message_changed"},
          hasText : BOOLEAN, hasFiles : BOOLEAN, isDM : BOOLEAN,
          isBotMention : BOOLEAN, old : BOOLEAN] :
     e.isBotMention => e.hasText}

InitSlack ==
  QueueIdle /\ BridgeIdle /\ GateIdle /\ RunnerParked /\ RunIdle /\ ObsIdle /\ RouteIdle /\ SlackIdle /\ CtxIdle

SlackOnly == UNCHANGED <<runnerVars, bridgeVars, queueVars, gateVars, runVars, obsVars, routeVars, ctxVars>>

NextSlack ==
  \/ \E old \in BOOLEAN : OnAppMention(old) /\ SlackOnly
  \/ \E e \in MessageEvents : OnMessage(e) /\ SlackOnly

SpecSlack == InitSlack /\ [][NextSlack]_vars

\* ----------------------------------------------------------- SpecContext
InitContext ==
  /\ QueueIdle /\ BridgeIdle /\ GateIdle /\ RunnerParked /\ RunIdle /\ ObsIdle /\ RouteIdle /\ SlackIdle
  /\ ctxEvent \in [isEvent : BOOLEAN, hasThreadTs : BOOLEAN]
  /\ messageTs = 0
  /\ isWorking = TRUE
  /\ updatePromise = <<>>
  /\ rejected = FALSE
  /\ ctxCalls = 0
  /\ mainPosts = 0
  /\ mainDeletes = 0
  /\ lastEffect = 0
  /\ dropped = FALSE
  /\ lastOp = NoOp
  /\ narrative = NoNarrative

\* narratives: the texts of at most MaxTextLen characters
RECURSIVE TextsOfLen(_)
TextsOfLen(n) ==
  IF n = 0 THEN {<<>>}
  ELSE {Append(t, c) : t \in TextsOfLen(n - 1), c \in Characters}

Texts == UNION {TextsOfLen(n) : n \in 0..MaxTextLen}

\* what respondWithNarrative looks at in a text, and one narrative for each
\* value of it
Shape(text) == <<Len(trim(text)) = 0, Len(splitTextIntoChunks(text, SLACK_REPLY_CHUNK_SIZE))>>

Narratives == {CHOOSE text \in Texts : Shape(text) = shape : shape \in {Shape(t) : t \in Texts}}

ContextOnly == UNCHANGED <<runnerVars, bridgeVars, queueVars, gateVars, runVars, obsVars, routeVars, slackVars>>

NextContext ==
  \/ Respond /\ UNCHANGED narrative /\ ContextOnly
  \/ ReplaceMessage /\ UNCHANGED narrative /\ ContextOnly
  \/ \E isTyping \in BOOLEAN : SetTyping(isTyping) /\ UNCHANGED narrative /\ ContextOnly
  \/ \E working \in BOOLEAN : SetWorking(working) /\ UNCHANGED narrative /\ ContextOnly
  \/ DeleteMessage /\ UNCHANGED narrative /\ ContextOnly
  \/ \E ok \in BOOLEAN : RespondInThread(ok) /\ UNCHANGED narrative /\ ContextOnly
  \/ \E ok \in BOOLEAN : UpdateSettles(ok) /\ UNCHANGED narrative /\ ContextOnly
  \/ \E text \in Narratives : RespondWithNarrative(text) /\ ContextOnly
  \/ NarrativeResumes /\ ContextOnly
  \/ \E ok \in BOOLEAN : NarrativeNextChunk(ok) /\ ContextOnly

SpecContext == InitContext /\ [][NextContext]_vars



\* ====================================================================
\* Properties
\* ====================================================================
\* The ids a step reaches through dependsOn in one or more hops.
RECURSIVE ReachFrom(_, _)
ReachFrom(p, S) ==
  LET next == S \cup UNION {StepOf(p, id).dependsOn : id \in S \cap StepIds(p)}
  IN IF next = S THEN S ELSE ReachFrom(p, next)

DependsTransitively(p, id) == ReachFrom(p, StepOf(p, id).dependsOn)

Acyclic(p) == \A id \in StepIds(p) : id \notin DependsTransitively(p, id)
DepsClosed(p) == \A id \in StepIds(p) : StepOf(p, id).dependsOn \subseteq StepIds(p)
WellFormed(p) == Acyclic(p) /\ DepsClosed(p)
\* some step can never become ready: it reaches a cycle or an unknown id
Unschedulable(p) == ~WellFormed(p)

RunnerEnded == runnerPc \in {"done", "failed"}
NoCallFailed == \A id \in DOMAIN calls : calls[id].state \notin {"refused", "rejected"}

\* C1: topological safety. No step is handed to the bridge more than once,
\* none is handed over before every id of its dependsOn is in `completed`,
\* and an acyclic plan whose dependencies all name steps of the plan, run
\* without a failing call, ends with every step dispatched exactly once.
TopologicalSafety ==
  LET ep == EffectivePlan(plan) IN
  /\ \A id \in DOMAIN calls : dispatchCount[id] <= 1
  /\ \A id \in DOMAIN calls :
       calls[id].state # "none" => StepOf(ep, id).dependsOn \subseteq calls[id].seen
  /\ runnerPc = "done" =>
       /\ \A id \in StepIds(ep) : dispatchCount[id] = 1
       /\ completed = StepIds(ep)
       /\ Len(results) = Len(ep.steps)
  /\ (WellFormed(ep) /\ NoCallFailed) => runnerPc \in {"idle", "awaiting", "done"}

\* the diamond of buildPlan has been executed to the end
TopologicalSafetyWitness ==
  /\ runnerPc = "done"
  /\ plan = buildPlan("execute", 20)
  /\ \A id \in 1..6 : dispatchCount[id] = 1

\* The run can go on without any new input: executePlan has not been entered
\* yet, or a bridge call of the awaited group is outstanding (the guards of
\* ExecutePlan and BridgeResolves).
RunnerCanStep ==
  \/ runnerPc = "idle"
  \/ /\ runnerPc = "awaiting"
     /\ \E id \in Range(curGroup) : calls[id].state = "pending"

\* C2: stuck detection. A plan with a step that can never become ready never
\* succeeds and, when no bridge call failed, ends with PlanStuck. The run
\* never hangs: it starts at most one wave per step, never loops without a
\* call in flight, and until it has ended a call it awaits is outstanding.
PlanStuckDetected ==
  LET ep == EffectivePlan(plan) IN
  /\ Unschedulable(ep) => runnerPc # "done"
  /\ runnerPc # "spinning"
  /\ RunnerEnded \/ RunnerCanStep
  /\ waves <= Len(ep.steps)
  /\ (Unschedulable(ep) /\ runnerPc = "failed" /\ NoCallFailed) => runError = "PlanStuck"
  /\ runError = "PlanStuck" =>
       /\ Unschedulable(ep)
       /\ runnerPc = "failed"
       /\ remaining # {}
       /\ \A id \in remaining : ~(StepOf(ep, id).dependsOn \subseteq completed)

\* a 2-cycle behind a step that ran: the run ended with PlanStuck
PlanStuckWitness ==
  /\ runError = "PlanStuck"
  /\ completed # {}
  /\ \E a \in remaining, b \in remaining :
       /\ a # b
       /\ a \in StepOf(EffectivePlan(plan), b).dependsOn
       /\ b \in StepOf(EffectivePlan(plan), a).dependsOn

\* C3: budget before the call. A step whose projected input exceeds the token
\* budget is refused without a bridge request and the run fails with the
\* budget error; with tokenBudget = 1 no request is ever made.
BudgetCheckedBeforeCall ==
  /\ \A id \in DOMAIN calls :
       (calls[id].state # "none" /\ calls[id].projectedInput > card.tokenBudget) =>
          /\ calls[id].state = "refused"
          /\ dispatchCount[id] = 0
          /\ runnerPc = "failed"
          /\ runError = "BudgetExceededBefore"
  /\ card.tokenBudget = 1 =>
       /\ \A id \in DOMAIN calls : dispatchCount[id] = 0
       /\ runnerPc \in {"idle", "failed"}
       /\ runnerPc = "failed" => runError \in {"BudgetExceededBefore", "PlanStuck"}

\* a later step is refused after earlier steps have spent tokens
BudgetBeforeWitness ==
  /\ runError = "BudgetExceededBefore"
  /\ totalInputTokens > 0
  /\ \E id \in DOMAIN calls : calls[id].state = "refused" /\ dispatchCount[id] = 0

\* C8: per channel, at most one work item runs at a time, items start in the
\* order they were enqueued, and nothing waits in the queue of an idle channel.
IsPrefix(a, b) == Len(a) <= Len(b) /\ SubSeq(b, 1, Len(a)) = a

ChannelSequential ==
  \A c \in Channels :
    /\ Cardinality(activeWork[c]) <= 1
    /\ IsPrefix(startedLog[c], enqueuedLog[c])
    /\ startedLog[c] \o queue[c] = enqueuedLog[c]
    /\ processing[c] <=> activeWork[c] # {}
    /\ queue[c] # <<>> => activeWork[c] # {}

\* two channels run at the same time while an item waits behind a running one
ChannelSequentialWitness ==
  /\ activeWork["C1"] # {}
  /\ activeWork["C2"] # {}
  /\ Len(queue["C1"]) > 0
  /\ Len(startedLog["C1"]) > 1

\* ------------------------------------------------------------------
\* C9: a call that returns a result returns the text of the response the
\* worker wrote for its id with ok=true, it has one outcome, and from the
\* moment it returns no request, response or status artifact of that id
\* exists, so a later poll for the id finds nothing.
BridgeRoundTrip ==
  \A id \in CallIds :
    /\ bcall[id].outcome = "returned" =>
          /\ bcall[id].pc \in {"rmRequest", "rmStatus", "ended"}
          /\ answered[id] # NoFile
          /\ answered[id].ok
          /\ answered[id].id = id
          /\ bcall[id].text = answered[id].text
          /\ bcall[id].error = "none"
    /\ (bcall[id].pc = "ended" /\ bcall[id].outcome = "returned") =>
          /\ bcall[id].leftAtExit = {}
          /\ Artifacts(id) = {}

BridgeRoundTripWitness ==
  \E id \in CallIds :
    /\ bcall[id].pc = "ended"
    /\ bcall[id].outcome = "returned"
    /\ bcall[id].hasOnStatus
    /\ bcall[id].text.len = 40
    /\ worker.active = NoId

\* ------------------------------------------------------------------
\* C10: on every exit path of request() (success, worker-reported error,
\* timeout, abort, a failure raised by the status callback after the request
\* artifact was written) the request, response and status artifacts of the id
\* have been deleted when the call returns or raises.
CleanupOnEveryExit ==
  \A id \in CallIds : bcall[id].pc = "ended" => bcall[id].leftAtExit = {}

\* ------------------------------------------------------------------
\* The last handleEvent call of channel c, as the claims about the gate see it.
HadPending(c) == lastHandled[c].before # NoPending
WasExpired(c) ==
  /\ HadPending(c)
  /\ lastHandled[c].nowMs - lastHandled[c].before.createdAtMs
        > EXECUTION_CONFIRMATION_TTL_MS
ParsedAs(c, decision) ==
  /\ lastHandled[c].event # NoEvent
  /\ readConfirmationDecision(lastHandled[c].event.text).decision = decision
GivenToken(c) == readConfirmationDecision(lastHandled[c].event.text).token
MatchingConfirm(c) ==
  /\ HadPending(c)
  /\ ParsedAs(c, "confirm")
  /\ GivenToken(c) = lastHandled[c].before.confirmationToken
WrongConfirm(c) ==
  /\ HadPending(c)
  /\ ParsedAs(c, "confirm")
  /\ GivenToken(c) # lastHandled[c].before.confirmationToken

\* ------------------------------------------------------------------
\* C4: a confirm with the stored token on a non-expired pending approval
\* clears the approval and starts execution with exactly the stored intent,
\* taskCard and bridgeRequest (plan and runId included); no field of the
\* executed request comes from the confirming message: the thread and the
\* user name are those of the message that created the approval.
ConfirmExecutesStored ==
  \A c \in GateChannels :
    (MatchingConfirm(c) /\ ~WasExpired(c)) =>
      LET h == lastHandled[c]
          stored == h.before
      IN /\ pendingExecutionApproval[c] = NoPending
         /\ h.dispatch # NoDispatch
         /\ h.dispatch.intent = stored.intent
         /\ h.dispatch.taskCard = stored.taskCard
         /\ h.dispatch.executionPlan = stored.bridgeRequest.executionPlan
         /\ h.dispatch.request.runId = stored.bridgeRequest.runId
         /\ h.dispatch.request =
              [stored.bridgeRequest EXCEPT !.threadTs = origin[c].threadTs,
                                           !.userName = UserNameOf(origin[c].user)]

\* ------------------------------------------------------------------
\* C5 as stated: a confirm with a missing or non-matching token on a pending
\* approval leaves the approval unchanged, is answered with the mismatch
\* message and issues no bridge request.
WrongTokenKeepsPending ==
  \A c \in GateChannels :
    WrongConfirm(c) =>
      /\ pendingExecutionApproval[c] = lastHandled[c].before
      /\ lastHandled[c].reply = "confirm token mismatch"
      /\ lastHandled[c].dispatch = NoDispatch
      /\ ~running[c]

\* C5, amended: the same for a pending approval that has not expired; any
\* number of such confirms in a row leaves it as it was.
WrongTokenKeepsLivePending ==
  \A c \in GateChannels :
    (WrongConfirm(c) /\ ~WasExpired(c)) =>
      /\ pendingExecutionApproval[c] = lastHandled[c].before
      /\ lastHandled[c].reply = "confirm token mismatch"
      /\ lastHandled[c].dispatch = NoDispatch
      /\ ~running[c]
      /\ lastHandled[c].mismatchStreak >= 1

WrongTokenKeepsLivePendingWitness ==
  \E c \in GateChannels :
    /\ WrongConfirm(c)
    /\ ~WasExpired(c)
    /\ lastHandled[c].mismatchStreak = 2
    /\ GivenToken(c) = NoToken
    /\ pendingExecutionApproval[c] # NoPending

\* ------------------------------------------------------------------
\* C6 as stated: a message that arrives more than the TTL (600,000 ms) after
\* the pending approval was created, whatever it says, clears the approval,
\* is answered with the expiry notice, issues no bridge request and is not
\* processed as a new intent.
ExpiryClearsPending ==
  \A c \in GateChannels :
    (HadPending(c) /\ lastHandled[c].nowMs - lastHandled[c].before.createdAtMs > 600000) =>
      /\ pendingExecutionApproval[c] = NoPending
      /\ lastHandled[c].reply = "expired"
      /\ lastHandled[c].dispatch = NoDispatch
      /\ ~running[c]

\* C6, amended: the same for every message that is not empty (a message
\* without text and attachments is ignored before the gate looks at the
\* pending approval); at exactly 600,000 ms the approval has not expired.
ExpiryClearsPendingOnMessage ==
  \A c \in GateChannels :
    /\ (/\ HadPending(c)
        /\ lastHandled[c].nowMs - lastHandled[c].before.createdAtMs > 600000
        /\ lastHandled[c].event.text.len > 0) =>
          /\ pendingExecutionApproval[c] = NoPending
          /\ lastHandled[c].reply = "expired"
          /\ lastHandled[c].dispatch = NoDispatch
          /\ ~running[c]
    /\ (/\ HadPending(c)
        /\ lastHandled[c].nowMs - lastHandled[c].before.createdAtMs <= 600000) =>
          lastHandled[c].reply # "expired"

ExpiryClearsPendingWitness ==
  \E c \in GateChannels :
    /\ MatchingConfirm(c)
    /\ lastHandled[c].nowMs - lastHandled[c].before.createdAtMs = 600001
    /\ lastHandled[c].reply = "expired"
    /\ pendingExecutionApproval[c] = NoPending

\* ------------------------------------------------------------------
\* C7: whatever the intent type, no bridge request is issued for a message
\* whose task card has riskLevel high, whose profile's interaction policy
\* demands confirmation, or whose goal contains a destructive-action marker,
\* unless a confirm with the matching token was received for that task first.
NeedsConfirmation(dispatch) ==
  \/ dispatch.taskCard.riskLevel = "high"
  \/ dispatch.profile.interactionPolicy = "confirm_before_execute"
  \/ dispatch.intent.goal.dangerous

NoRiskyDispatchWithoutConfirm ==
  \A c \in GateChannels :
    (lastHandled[c].dispatch # NoDispatch /\ NeedsConfirmation(lastHandled[c].dispatch)) =>
      /\ MatchingConfirm(c)
      /\ lastHandled[c].before.bridgeRequest.runId = lastHandled[c].dispatch.request.runId

\* C11: cancellation of a bridge request. A call that began a loop iteration
\* of waitForResponse with the token set has raised Aborted, and no call has
\* returned a response with the token already set when it returned.
AbortEndsRequest ==
  \A id \in CallIds :
    /\ bcall[id].polledAborted =>
          bcall[id].outcome = "raised" /\ bcall[id].error = "BridgeAborted"
    /\ bcall[id].outcome = "returned" => ~bcall[id].abortedAtOutcome

\* C20: the timeout of a bridge request. A call that sleeps in the loop of
\* waitForResponse began its last iteration before the timeout it was given
\* by its caller had elapsed.
PerCallTimeoutBoundsPolling ==
  \A id \in CallIds :
    (bcall[id].pc = "poll" /\ bcall[id].sleeping) =>
       now - bcall[id].start < bcall[id].requestedTimeoutMs

\* C12: no new step after cancellation. No step was handed to the bridge
\* client (whose request() writes the request artifact before anything else)
\* with the cancellation token already set, whenever the token was set.
NoStepIssuedAfterAbort ==
  \A id \in DOMAIN calls :
    calls[id].state \in {"pending", "resolved", "rejected"} => ~calls[id].issuedAborted

\* The errors of plan execution that are fatal to a run.
FatalErrors ==
  {"BudgetExceededBefore", "BudgetExceededAfter", "PlanStuck",
   "WorkerReportedError", "BridgeTimeout"}

\* C13: a failed run is reported. When handleEvent has ended after plan
\* execution failed with a fatal error and no stop was requested, the trace
\* ended as failed, the failure message was given to the chat context (and
\* handed to the transport, when no call of the transport failed), and the
\* channel is no longer running.
FailureReported ==
  (run.pc = "ended" /\ run.error \in FatalErrors /\ ~run.stopRequested) =>
     /\ run.trace = "failed"
     /\ run.failureCalled
     /\ ~run.transportFailed => "failure" \in run.handed
     /\ ~run.running

FailureReportedWitness ==
  /\ run.pc = "ended"
  /\ run.error = "BridgeTimeout"
  /\ ~run.stopRequested
  /\ run.trace = "failed"
  /\ run.finalMessage = "failure"

\* C14: a stopped run is cancelled. When handleStop was called during a run
\* and the run ended with the abort error, the trace ended as cancelled,
\* no failure message was given to the chat, and the last message handed to
\* the chat when the run ended is the stopped message.
StopCancelsRun ==
  (run.pc = "ended" /\ run.stopRequested /\ run.error = "BridgeAborted") =>
     /\ run.trace = "cancelled"
     /\ ~run.failureCalled
     /\ "failure" \notin run.handed
     /\ run.finalMessage = "stopped"

\* C15: a failing chat transport does not change the outcome. A run that has
\* ended, whose plan execution succeeded and that was not stopped, has a
\* trace that ended as succeeded, whatever the transport did.
TransportFailureKeepsOutcome ==
  (run.pc = "ended" /\ runnerPc = "done" /\ ~run.stopRequested) =>
     run.trace = "succeeded"

\* C16: the budget check after a call. When a run has ended with the error
\* of the check after the call, the tokens spent up to and including the
\* step that exceeded the budget are in the execution token usage of the trace.
SpentTokensRecorded ==
  (run.pc = "ended" /\ run.error = "BudgetExceededAfter") =>
     \E id \in DOMAIN calls :
        /\ calls[id].error = "BudgetExceededAfter"
        /\ calls[id].outputTokens > 0
        /\ run.executionInputTokens >= calls[id].projectedInput
        /\ run.executionOutputTokens >= calls[id].outputTokens

\* ------------------------------------------------------------------
CancelOnPending(c) == HadPending(c) /\ ParsedAs(c, "cancel")
OtherToken(c) ==
  GivenToken(c) # NoToken /\ GivenToken(c) # lastHandled[c].before.confirmationToken

\* C17 as stated: a cancel on a pending approval. With a token different
\* from the stored one the approval stays and the mismatch message is sent;
\* with no token or the stored one the approval is cleared, its trace is
\* finished as cancelled and the cancellation is reported. No bridge request
\* is issued in either case.
CancelOnPendingApproval ==
  \A c \in GateChannels :
    CancelOnPending(c) =>
      /\ lastHandled[c].dispatch = NoDispatch
      /\ ~running[c]
      /\ IF OtherToken(c)
         THEN /\ pendingExecutionApproval[c] = lastHandled[c].before
              /\ lastHandled[c].reply = "cancel token mismatch"
         ELSE /\ pendingExecutionApproval[c] = NoPending
              /\ lastHandled[c].finished = "cancelled"
              /\ lastHandled[c].reply = "cancelled"

\* C17, amended: the same for a pending approval that has not expired.
CancelOnLiveApproval ==
  \A c \in GateChannels :
    (CancelOnPending(c) /\ ~WasExpired(c)) =>
      /\ lastHandled[c].dispatch = NoDispatch
      /\ ~running[c]
      /\ IF OtherToken(c)
         THEN /\ pendingExecutionApproval[c] = lastHandled[c].before
              /\ lastHandled[c].reply = "cancel token mismatch"
              /\ lastHandled[c].finished = "none"
         ELSE /\ pendingExecutionApproval[c] = NoPending
              /\ lastHandled[c].finished = "cancelled"
              /\ lastHandled[c].reply = "cancelled"

CancelOnLiveApprovalWitness ==
  \E c \in GateChannels :
    /\ CancelOnPending(c)
    /\ ~WasExpired(c)
    /\ OtherToken(c)
    /\ pendingExecutionApproval[c] = lastHandled[c].before
    /\ lastHandled[c].reply = "cancel token mismatch"

\* ------------------------------------------------------------------
AmbiguousOnPending(c) ==
  /\ HadPending(c)
  /\ ~ParsedAs(c, "confirm")
  /\ ~ParsedAs(c, "cancel")

\* The approval found by the last call, with the time of a reminder updated.
Reminded(c) ==
  [lastHandled[c].before EXCEPT !.lastReminderAtMs = lastHandled[c].nowMs]

\* C18 as stated: a message that is neither confirm nor cancel, arriving
\* while an approval is pending, leaves the approval in place, issues no
\* bridge request, and is answered with the confirmation instructions only
\* if no reminder was sent during the previous 3000 ms.
AmbiguousKeepsPending ==
  \A c \in GateChannels :
    AmbiguousOnPending(c) =>
      /\ pendingExecutionApproval[c] \in {lastHandled[c].before, Reminded(c)}
      /\ lastHandled[c].dispatch = NoDispatch
      /\ ~running[c]
      /\ lastHandled[c].reply \in {"reminder", "none", "ignored"}
      /\ (lastHandled[c].reply = "reminder" /\ lastHandled[c].before.lastReminderAtMs # 0) =>
            lastHandled[c].nowMs - lastHandled[c].before.lastReminderAtMs
               >= CONFIRMATION_REMINDER_DEBOUNCE_MS

\* C18, amended: the same for a pending approval that has not expired. The
\* approval is the stored one, with the time of the reminder when one is
\* sent; a non-empty message is answered with the instructions exactly when
\* no reminder was sent during the previous 3000 ms, so two reminders for
\* the same approval are at least 3000 ms apart.
AmbiguousKeepsLivePending ==
  \A c \in GateChannels :
    (AmbiguousOnPending(c) /\ ~WasExpired(c)) =>
      LET h == lastHandled[c]
          last == h.before.lastReminderAtMs
          due == last = 0 \/ h.nowMs - last >= CONFIRMATION_REMINDER_DEBOUNCE_MS
      IN /\ h.dispatch = NoDispatch
         /\ ~running[c]
         /\ h.finished = "none"
         /\ h.reply \in {"reminder", "none", "ignored"}
         /\ h.reply = "reminder" => (due /\ pendingExecutionApproval[c] = Reminded(c))
         /\ h.reply # "reminder" => pendingExecutionApproval[c] = h.before
         /\ (due /\ h.event.text.len > 0) => h.reply = "reminder"

\* a second reminder for the same approval, 3000 ms after the first
AmbiguousKeepsLivePendingWitness ==
  \E c \in GateChannels :
    /\ AmbiguousOnPending(c)
    /\ ~WasExpired(c)
    /\ lastHandled[c].reply = "reminder"
    /\ lastHandled[c].before.lastReminderAtMs # 0
    /\ lastHandled[c].nowMs - lastHandled[c].before.lastReminderAtMs
         = CONFIRMATION_REMINDER_DEBOUNCE_MS

\* ------------------------------------------------------------------
\* C19: one pending approval per channel. A channel holds no approval or
\* one; a call that found an approval that had not expired built no intent,
\* task card or plan and did not replace the approval: it ignored an empty
\* message or handled the message as a cancel, a reminder (sent or debounced)
\* or a confirm, and what it dispatched, if anything, is what was stored.
OnePendingApproval ==
  \A c \in GateChannels :
    /\ pendingExecutionApproval[c] # NoPending =>
          pendingExecutionApproval[c].kind = "approval"
    /\ (HadPending(c) /\ ~WasExpired(c)) =>
         LET h == lastHandled[c] IN
         /\ h.reply \in {"ignored", "cancel token mismatch", "cancelled", "reminder",
                         "none", "confirm token mismatch", "acknowledgement"}
         /\ pendingExecutionApproval[c] \in {NoPending, h.before, Reminded(c)}
         /\ h.dispatch # NoDispatch =>
              /\ h.dispatch.intent = h.before.intent
              /\ h.dispatch.taskCard = h.before.taskCard
              /\ h.dispatch.executionPlan = h.before.bridgeRequest.executionPlan

\* a task message arrived while a live approval was pending and got a reminder
OnePendingApprovalWitness ==
  \E c \in GateChannels :
    /\ HadPending(c)
    /\ ~WasExpired(c)
    /\ lastHandled[c].event.text = TextDeploy
    /\ lastHandled[c].reply = "reminder"
    /\ pendingExecutionApproval[c] = Reminded(c)

\* --------------------------------------------------------------------
\* C21  During one bridge request the polled status artifact is handed to
\* onStatus only when its signature (phase, updatedAt, text) differs from
\* the signature last delivered: a status read with the signature of the
\* read before is never handed over again, a status read with another
\* signature always is, so an unchanged artifact is delivered exactly once
\* however often it is polled.
\* --------------------------------------------------------------------
StatusDeliveredOnChange ==
  \A id \in CallIds :
    /\ ~bcall[id].redelivered
    /\ ~bcall[id].undelivered
    /\ bcall[id].pc \in {"poll", "notifying"} => bcall[id].lastSig = bcall[id].prevRead

\* An unchanged status artifact was read again and not handed over again.
StatusDeliveredOnChangeWitness ==
  \E id \in CallIds :
    /\ bcall[id].reread
    /\ bcall[id].pc = "poll"
    /\ bcall[id].sleeping
    /\ bcall[id].lastSig # NoSignature
    /\ statusFiles[id] # NoFile
    /\ Signature(statusFiles[id]) = bcall[id].lastSig
\* --------------------------------------------------------------------
\* C22  event, markClarification, markConfirmation, recordRoundTrip,
\* recordTokenUsage and finish called with a run id that is not active
\* (never started, or already finished) change nothing: the Map of active
\* traces, every trace file and the metrics file are as before the call.
\* --------------------------------------------------------------------
ObsMethodsOnRun ==
  {"event", "markClarification", "markConfirmation", "recordRoundTrip",
   "recordTokenUsage", "finish"}

InactiveIdIsNoOp ==
  [][(obsCalls' = obsCalls + 1 /\ lastObs'.method \in ObsMethodsOnRun /\ ~lastObs'.wasActive)
       => (active' = active /\ traceFiles' = traceFiles /\ metricsFile' = metricsFile)]_vars

\* The last call was made on a finished run while another id was never
\* started, and the finished run's file and the metrics are there to change.
InactiveIdIsNoOpWitness ==
  /\ lastObs.method \in ObsMethodsOnRun
  /\ ~lastObs.wasActive
  /\ traceFiles[lastObs.runId] # NoFile
  /\ metricsFile # NoFile
  /\ \E other \in RunIds : traceFiles[other] = NoFile
\* --------------------------------------------------------------------
\* C23  Each started run is finalized exactly once: the first finish for
\* an active id stamps endedAt and status on the trace, adds the trace to
\* the cumulative metrics once (one run, one status counter, every counter
\* of the trace, the duration) and evicts the id; a later finish for that
\* id changes neither the status nor any metrics counter.  So the runs
\* counted in the metrics never exceed the runs started and not active.
\* --------------------------------------------------------------------
ActiveRuns == {id \in RunIds : active[id].present}

StatusCounter(metrics, status) ==
  CASE status = "succeeded" -> metrics.succeededRuns
    [] status = "failed" -> metrics.failedRuns
    [] status = "cancelled" -> metrics.cancelledRuns

\* `after` is `before` with the finished trace `t` added once.
FoldedOnce(before, after, t) ==
  /\ after.totalRuns = before.totalRuns + 1
  /\ \A status \in RunStatuses :
       StatusCounter(after, status) =
         StatusCounter(before, status) + (IF status = t.status THEN 1 ELSE 0)
  /\ after.totalClarificationTurns = before.totalClarificationTurns + t.clarificationTurns
  /\ after.totalConfirmationTurns = before.totalConfirmationTurns + t.confirmationTurns
  /\ after.totalRoundTrips = before.totalRoundTrips + t.roundTrips
  /\ after.totalConversationInputTokens
       = before.totalConversationInputTokens + t.conversationInputTokens
  /\ after.totalConversationOutputTokens
       = before.totalConversationOutputTokens + t.conversationOutputTokens
  /\ after.totalExecutionInputTokens
       = before.totalExecutionInputTokens + t.executionInputTokens
  /\ after.totalExecutionOutputTokens
       = before.totalExecutionOutputTokens + t.executionOutputTokens
  /\ after.totalDurationMs = before.totalDurationMs + (t.endedAt - t.startedAt)

FinalizedExactlyOnce ==
  [][(obsCalls' = obsCalls + 1) =>
       LET id == lastObs'.runId
           before == readMetrics(metricsFile)
           after == readMetrics(metricsFile')
       IN /\ (lastObs'.method = "finish" /\ lastObs'.wasActive) =>
               /\ ~active'[id].present
               /\ traceFiles'[id].status \in RunStatuses
               /\ traceFiles'[id].endedAt = obsCalls
               /\ traceFiles'[id].startedAt = active[id].startedAt
               /\ traceFiles'[id].roundTrips = active[id].roundTrips
               /\ traceFiles'[id].clarificationTurns = active[id].clarificationTurns
               /\ traceFiles'[id].confirmationTurns = active[id].confirmationTurns
               /\ traceFiles'[id].conversationInputTokens = active[id].conversationInputTokens
               /\ traceFiles'[id].conversationOutputTokens = active[id].conversationOutputTokens
               /\ traceFiles'[id].executionInputTokens = active[id].executionInputTokens
               /\ traceFiles'[id].executionOutputTokens = active[id].executionOutputTokens
               /\ FoldedOnce(before, after, traceFiles'[id])
          /\ (lastObs'.method = "finish" /\ ~lastObs'.wasActive) =>
               /\ traceFiles'[id] = traceFiles[id]
               /\ after = before
          /\ lastObs'.method # "finish" => after = before
          /\ after.totalRuns + Cardinality(ActiveRuns') <= startedRuns'
          /\ after.totalRuns = after.succeededRuns + after.failedRuns + after.cancelledRuns]_vars

\* A run that made a round trip was finished, and finish was then called on
\* it once more with another status.
FinalizedExactlyOnceWitness ==
  /\ lastObs.method = "finish"
  /\ ~lastObs.wasActive
  /\ traceFiles[lastObs.runId] # NoFile
  /\ traceFiles[lastObs.runId].status = "failed"
  /\ traceFiles[lastObs.runId].roundTrips = 1
  /\ metricsFile # NoFile
  /\ metricsFile.totalRuns = 1
  /\ metricsFile.failedRuns = 1
  /\ metricsFile.totalRoundTrips = 1
\* --------------------------------------------------------------------
\* C24  The trace file of an active run is always consistent with the
\* in-memory trace: after every call of event, markClarification,
\* markConfirmation, recordRoundTrip or recordTokenUsage on the run, the
\* persisted events and counters equal the ones in memory.
\* --------------------------------------------------------------------
TraceFileConsistent ==
  \A id \in RunIds :
    active[id].present =>
      /\ traceFiles[id] # NoFile
      /\ traceFiles[id].events = active[id].events
      /\ traceFiles[id].clarificationTurns = active[id].clarificationTurns
      /\ traceFiles[id].confirmationTurns = active[id].confirmationTurns
      /\ traceFiles[id].roundTrips = active[id].roundTrips
      /\ traceFiles[id].conversationInputTokens = active[id].conversationInputTokens
      /\ traceFiles[id].conversationOutputTokens = active[id].conversationOutputTokens
      /\ traceFiles[id].executionInputTokens = active[id].executionInputTokens
      /\ traceFiles[id].executionOutputTokens = active[id].executionOutputTokens
\* --------------------------------------------------------------------
\* C25  The plan of buildPlan is acyclic and is dispatched, while the bridge
\* answers every step, in exactly the waves [planner], [coder],
\* [reviewer, tester], [docs], [synthesizer] for an execute intent and
\* [planner], [synthesizer] for every other intent: the waves dispatched so
\* far are always a prefix of these, and all of them when the run is done.
\* --------------------------------------------------------------------
BuiltPlans == {buildPlan(intentType, o) : intentType \in IntentTypes, o \in ObjectiveLens}

ExpectedWaves(p) ==
  IF Len(p.steps) = 6
  THEN << {"planner"}, {"coder"}, {"reviewer", "tester"}, {"docs"}, {"synthesizer"} >>
  ELSE << {"planner"}, {"synthesizer"} >>

\* The steps whose closures were started when exactly `done` had completed.
DispatchedWith(done) ==
  {id \in DOMAIN calls : calls[id].state # "none" /\ calls[id].seen = done}

\* The groups dispatched so far, in order: each was started together, after
\* every step of the groups before it had completed.
RECURSIVE WavesFrom(_)
WavesFrom(done) ==
  LET wave == DispatchedWith(done)
  IN IF wave = {} THEN <<>> ELSE <<wave>> \o WavesFrom(done \cup wave)

WorkersOf(p, wave) == {StepOf(p, id).worker : id \in wave}

DispatchedWaves ==
  LET ws == WavesFrom({}) IN [i \in 1..Len(ws) |-> WorkersOf(plan, ws[i])]

BuiltPlanWaves ==
  /\ \A p \in BuiltPlans : Acyclic(p) /\ DepsClosed(p)
  /\ plan \in BuiltPlans =>
       /\ IsPrefix(DispatchedWaves, ExpectedWaves(plan))
       /\ \A id \in DOMAIN calls :
            calls[id].state # "none" => id \in UNION Range(WavesFrom({}))
       /\ waves = Len(DispatchedWaves)
       /\ runnerPc = "done" =>
            /\ DispatchedWaves = ExpectedWaves(plan)
            /\ [i \in 1..Len(results) |-> results[i].worker]
                 = [i \in 1..Len(plan.steps) |-> plan.steps[i].worker]

\* The plan of an execute intent has run to its end: reviewer and tester were
\* started together after the coder, docs after both.
BuiltPlanWavesWitness ==
  /\ plan = buildPlan("execute", 20)
  /\ runnerPc = "done"
  /\ waves = 5
  /\ calls[3].seen = {1, 2}
  /\ calls[4].seen = {1, 2}
  /\ calls[5].seen = {1, 2, 3, 4}
\* --------------------------------------------------------------------
\* C26  On success finalText is the response text of the last completed
\* step whose worker is synthesizer, and, if no completed step is a
\* synthesizer, the text of the last completed step.
\* --------------------------------------------------------------------
IsSynthesizer(result) == result.worker = "synthesizer"

FinalTextIsLastSynthesizer ==
  runnerPc = "done" =>
    /\ results # <<>>
    /\ \A i \in 1..Len(results) :
         (IsSynthesizer(results[i])
            /\ \A j \in (i + 1)..Len(results) : ~IsSynthesizer(results[j]))
           => finalText = results[i].text
    /\ (\A i \in 1..Len(results) : ~IsSynthesizer(results[i]))
         => finalText = results[Len(results)].text

\* Two synthesizer steps completed and a coder step after them: finalText is
\* the answer to the second synthesizer, not to the first nor to the coder.
FinalTextIsLastSynthesizerWitness ==
  /\ plan = SynthesizerTwice
  /\ runnerPc = "done"
  /\ Len(results) = 3
  /\ finalText = results[2].text
  /\ finalText # results[1].text
  /\ finalText # results[3].text
\* --------------------------------------------------------------------
\* C27  After handleEvent has returned on any path (plan executed,
\* confirmation prompt, clarification, token mismatch, expiry, failure,
\* cancellation, or an ignored empty message) isRunning(channel) is false
\* and the channel's AbortController is cleared; isRunning is true only
\* while a handleEvent of the channel is in progress.
\* --------------------------------------------------------------------
isRunning(c) == running[c]

ReturnedLeavesIdle ==
  \A c \in GateChannels :
    /\ lastHandled[c].returned => ~isRunning(c) /\ ~abortController[c]
    /\ isRunning(c) => ~lastHandled[c].returned /\ lastHandled[c].dispatch # NoDispatch

\* A call that executed a plan has returned, after calls that returned from
\* the confirmation prompt and from the matching confirmation.
ReturnedLeavesIdleWitness ==
  \E c \in GateChannels :
    /\ lastHandled[c].returned
    /\ lastHandled[c].dispatch # NoDispatch
    /\ lastHandled[c].before # NoPending
    /\ ~isRunning(c)
\* --------------------------------------------------------------------
\* C28  On a channel with no pending approval, every message that has text
\* or at least one attachment and needs neither clarification nor
\* confirmation leads to at least one bridge request, whereas a message with
\* empty text and no attachments is ignored without marking the channel
\* running or issuing any request.
\* --------------------------------------------------------------------
BridgeRequests == {id \in DOMAIN dispatchCount : dispatchCount[id] > 0}
MessageIsEmpty == baseTextLen = 0 /\ run.attachments = 0

IgnoredUntouched ==
  /\ run.pc = "ignored"
  /\ ~run.running
  /\ run.trace = "none"
  /\ runnerPc = "idle"
  /\ BridgeRequests = {}

Times32(h, n) ==
  LET lo == h.lo * n
  IN [hi |-> (h.hi * n + lo \div 65536) % 65536, lo |-> lo % 65536]

Plus32(a, b) ==
  LET lo == a.lo + b.lo
  IN [hi |-> (a.hi + b.hi + lo \div 65536) % 65536, lo |-> lo % 65536]

RECURSIVE Pow31(_)
Pow31(k) == IF k = 0 THEN [hi |-> 0, lo |-> 1] ELSE Times32(Pow31(k - 1), 31)

\* the sum of seed[i] * 31^(Len(seed) - i) from position i on, modulo 2^32
RECURSIVE SeedPolynomial(_, _)
SeedPolynomial(seed, i) ==
  IF i > Len(seed) THEN Zero32
  ELSE Plus32(Times32(Pow31(Len(seed) - i), seed[i]), SeedPolynomial(seed, i + 1))

Tiers(intentType) ==
  CASE intentType \in {"status", "chat"} -> <<"fast", "fast">>
    [] intentType = "question" -> <<"balanced", "balanced">>
    [] intentType = "execute" -> <<"balanced", "quality">>

RouteFollowsIntentAndSeed ==
  modelRoute # NoRoute =>
    /\ <<modelRoute.conversationModel, modelRoute.executionModel>> = Tiers(routeIntent.intentType)
    /\ hashSeed(routeSeed) = SeedPolynomial(routeSeed, 1)
    /\ modelRoute.strategyVariant = "A" <=> SeedPolynomial(routeSeed, 1).lo % 2 = 0
    /\ modelRoute.strategyVariant \in {"A", "B"}
    /\ \A hasKeyword \in BOOLEAN :
         modelRoute = resolveRoute([routeIntent EXCEPT !.goalHasKeyword = hasKeyword], routeSeed)

\* A question was routed to variant B on a seed whose hash went past 2^32.
RouteFollowsIntentAndSeedWitness ==
  /\ modelRoute = ModelRoute("balanced", "balanced", "B")
  /\ routeIntent.intentType = "question"
  /\ Len(routeSeed) = MaxSeedLen
  /\ routeSeed[1] = 97

\* --------------------------------------------------------------------
\* C30  The inbound routing policy processes all channel messages and DMs:
\* shouldProcessMessageEvent returns true for every combination of isDM and
\* isBotMention, and shouldProcessAppMention returns false.
\* --------------------------------------------------------------------
InboundPolicyProcessesAll ==
  /\ (lastInbound.kind = "message" /\ lastInbound.policy # NotCalled) =>
       /\ lastInbound.policy = Policy(TRUE)
       /\ lastInbound.enqueued
  /\ lastInbound.kind = "app_mention" =>
       /\ lastInbound.policy = Policy(FALSE)
       /\ ~lastInbound.enqueued
\* --------------------------------------------------------------------
\* C31  enqueueEvent returns false and discards the event when the channel's
\* queue already holds 5 or more waiting work items, and otherwise enqueues
\* the event and returns true; it never rejects an event merely because a
\* run is in progress on the channel.
\* --------------------------------------------------------------------
EnqueueEventCalled == lastEnqueue'.via = "enqueueEvent" /\ (lastEnqueue' # lastEnqueue \/ enqueuedLog' # enqueuedLog)

EnqueueEventStep ==
  LET c == lastEnqueue'.channel
      event == [n |-> Len(enqueuedLog[c]) + 1, kind |-> "event"]
  IN EnqueueEventCalled =>
       /\ lastEnqueue'.size = Len(queue[c])
       /\ lastEnqueue'.busy = processing[c]
       /\ IF Len(queue[c]) >= 5
          THEN /\ ~lastEnqueue'.accepted
               /\ queue' = queue /\ enqueuedLog' = enqueuedLog
               /\ startedLog' = startedLog /\ activeWork' = activeWork
          ELSE /\ lastEnqueue'.accepted
               /\ enqueuedLog'[c] = Append(enqueuedLog[c], event)
               /\ IF processing[c]
                  THEN queue'[c] = Append(queue[c], event) /\ activeWork' = activeWork
                  ELSE queue'[c] = queue[c] /\ activeWork'[c] = activeWork[c] \cup {event}

EnqueueEventFullOnly == [][EnqueueEventStep]_vars

\* An event was turned down on a channel whose queue held five waiting items,
\* one of them an event accepted while work was in progress.
EnqueueEventFullOnlyWitness ==
  /\ lastEnqueue.via = "enqueueEvent"
  /\ ~lastEnqueue.accepted
  /\ lastEnqueue.size = 5
  /\ \E c \in Channels :
       /\ lastEnqueue.channel = c
       /\ processing[c]
       /\ \E i \in 1..Len(queue[c]) : queue[c][i].kind = "event"
\* --------------------------------------------------------------------
\* C32  A Slack context posts at most one main message per event: the first
\* respond, replaceMessage or setTyping call posts it (in the event's thread
\* when the event has a threadTs and is not an event trigger, otherwise in
\* the channel), every later respond, replaceMessage and setWorking call
\* updates that same message, and the calls take effect in the order they
\* were made.
\* --------------------------------------------------------------------
\* as claimed, on the state: one main message at most, and no call lost
OneMainMessagePerEvent ==
  /\ mainPosts <= 1
  /\ ~dropped

TransportCalled == lastOp' # lastOp /\ lastOp'.op # "reply"

\* as amended: one main message at a time; a post happens only while there is
\* none, by respond, replaceMessage or setTyping, at the place the event
\* decides; an update or a deletion goes to the message that exists;
\* callbacks run in the order of their calls; after a failed transport call
\* no later call of the chained methods reaches the transport
MainMessageStep ==
  /\ mainPosts' - mainDeletes' = (IF messageTs' # 0 THEN 1 ELSE 0)
  /\ messageTs' # 0 => messageTs' = mainPosts'
  /\ TransportCalled =>
       /\ ~rejected
       /\ lastOp'.call = lastEffect'
       /\ lastOp'.op = "post" =>
            /\ messageTs = 0
            /\ lastOp'.method \in {"respond", "replaceMessage", "setTyping"}
            /\ lastOp'.where = (IF ctxEvent.hasThreadTs /\ ~ctxEvent.isEvent THEN "thread" ELSE "channel")
            /\ lastOp'.ok <=> (messageTs' = lastOp'.ts /\ mainPosts' = mainPosts + 1)
       /\ lastOp'.op = "update" =>
            /\ messageTs # 0
            /\ lastOp'.ts = messageTs
            /\ messageTs' = messageTs
            /\ lastOp'.method \in {"respond", "replaceMessage", "setWorking"}
       /\ lastOp'.op = "delete" =>
            /\ lastOp'.method = "deleteMessage"
            /\ lastOp'.ts = messageTs
            /\ messageTs # 0
       /\ lastOp'.op \in {"post", "update", "delete"}
  /\ lastEffect' # lastEffect =>
       /\ lastEffect' > lastEffect
       /\ \A i \in 1..Len(updatePromise') : updatePromise'[i].call > lastEffect'
  /\ (messageTs # 0 /\ ~rejected /\ lastEffect' # lastEffect /\ Head(updatePromise).method \in {"respond", "replaceMessage", "setWorking"}) =>
       /\ lastOp'.op = "update"
       /\ lastOp'.call = lastEffect'
  /\ (dropped' /\ ~dropped) => rejected'
  /\ rejected => mainPosts' = mainPosts /\ messageTs' = messageTs

OneMainMessageAtATime == [][MainMessageStep]_vars

\* The second of two calls chained together has updated, in its turn, the main
\* message that the first one posted in the thread of the event.
OneMainMessageAtATimeWitness ==
  /\ targetThreadTs(ctxEvent)
  /\ mainPosts = 1
  /\ messageTs = 1
  /\ lastOp.op = "update" /\ lastOp.ok /\ lastOp.call = 2
  /\ lastOp.method = "setWorking"
  /\ ~isWorking
\* --------------------------------------------------------------------
\* C33  The bridge worker handles at most one request at a time and always
\* picks the request artifact that is first in filename order: it does not
\* accept another request until it has written the response of the active
\* one.
\* --------------------------------------------------------------------
Unanswered(w) == {id \in w.accepted : answered[id] = NoFile}

OneRequestStep ==
  /\ Cardinality({id \in worker'.accepted : answered'[id] = NoFile}) <= 1
  /\ worker'.accepted # worker.accepted =>
       /\ worker.active = NoId
       /\ Unanswered(worker) = {}
       /\ worker'.accepted = worker.accepted \cup {worker'.active}
       /\ worker'.active \in reqFiles
       /\ \A other \in reqFiles : worker'.active <= other
  /\ (worker.active # NoId /\ worker'.active # worker.active) =>
       /\ worker'.active = NoId
       /\ answered[worker.active] # NoFile
       /\ respFiles[worker.active].id = worker.active

OneRequestAtATime == [][OneRequestStep]_vars

\* The worker has answered request 1 and is now handling request 3, which it
\* accepted while it was the only request artifact left.
OneRequestAtATimeWitness ==
  /\ worker.accepted = {1, 3}
  /\ worker.active = 3
  /\ answered[1] # NoFile
  /\ answered[3] = NoFile
  /\ worker.pc = "running"
\* --------------------------------------------------------------------
\* C34  The bridge worker writes a response or status artifact only for the
\* id of a request artifact it has read and accepted, and for every request
\* it accepts it writes exactly one response (ok=true with text, or ok=false
\* with an error, including at session shutdown) and no status artifact for
\* that id after the response.
\* --------------------------------------------------------------------
IsResponseOf(file, id) ==
  /\ file.kind = "response"
  /\ file.id = id
  /\ IF file.ok THEN file.text.len > 0 /\ file.error = "none"
     ELSE file.text = NoText /\ file.error # "none"

WorkerWritesStep ==
  /\ \A id \in RequestIds :
       /\ (respFiles'[id] # respFiles[id] /\ respFiles'[id] # NoFile) =>
            /\ id = worker.active
            /\ id \in worker.accepted
            /\ IsRequest(id)
            /\ answered[id] = NoFile
            /\ IsResponseOf(respFiles'[id], id)
            /\ answered'[id] = respFiles'[id]
       /\ (statusFiles'[id] # statusFiles[id] /\ statusFiles'[id] # NoFile) =>
            /\ id = worker'.active
            /\ id \in worker'.accepted
            /\ answered[id] = NoFile
            /\ statusFiles'[id].id = id
       /\ answered[id] # NoFile => answered'[id] = answered[id]
  /\ (worker'.active # NoId /\ worker'.pc # "finalizing") => answered'[worker'.active] = NoFile
  /\ (worker.active # NoId /\ worker'.active = NoId) => IsResponseOf(answered'[worker.active], worker.active)

WorkerAnswersAcceptedOnce == [][WorkerWritesStep]_vars

\* Request 1 was accepted and answered with ok=false at session shutdown;
\* request 3 was answered with a text after that, and nothing is left of
\* their status artifacts.
WorkerAnswersAcceptedOnceWitness ==
  /\ worker.accepted = {1, 3}
  /\ worker.active = NoId
  /\ ~answered[1].ok /\ answered[1].error = "session shut down"
  /\ answered[3].ok
  /\ answered[2] = NoFile
  /\ statusFiles = [id \in RequestIds |-> NoFile]
\* --------------------------------------------------------------------
\* C35  When executePlan returns or raises, none of the bridge requests it
\* issued is still in flight: in particular, when one step of a parallel
\* group fails (budget exceeded, worker error or timeout), no sibling step's
\* request remains pending in the queue after the run has been reported as
\* failed and the channel marked not running.
\* --------------------------------------------------------------------
RequestsInFlight == {id \in DOMAIN calls : calls[id].state = "pending"}

NoRequestInFlightAfterExit ==
  /\ runnerPc \in {"done", "failed"} => RequestsInFlight = {}
  /\ (run.pc = "ended" /\ ~run.running) => RequestsInFlight = {}
\* --------------------------------------------------------------------
\* C36  Whenever executePlan returns successfully, totalInputTokens +
\* totalOutputTokens is at most taskCard.budget.tokenBudget, for every plan
\* shape, including plans in which several steps of one parallel group are
\* checked and run concurrently.
\* --------------------------------------------------------------------
BudgetRespectedOnSuccess ==
  runnerPc = "done" => totalInputTokens + totalOutputTokens <= card.tokenBudget
\* --------------------------------------------------------------------
\* C37  After a request call has ended by timeout or abort and deleted its
\* artifacts, no request, response or status artifact for that id ever
\* exists again, even when the worker had already accepted the request and
\* finishes processing it later.
\* --------------------------------------------------------------------
GaveUp(id) ==
  /\ bcall[id].pc = "ended"
  /\ bcall[id].outcome = "raised"
  /\ bcall[id].error \in {"BridgeTimeout", "BridgeAborted"}
  /\ bcall[id].leftAtExit = {}

NoArtifactAfterGivingUp ==
  \A id \in CallIds : GaveUp(id) => Artifacts(id) = {}
\* C38  When the narrative of a successful run is longer than the chunk size
\* and is split into n chunks, all n chunks are delivered to the user in
\* order, whether the triggering message was in a thread or in the main
\* channel: once respondWithNarrative has returned, the chunks that
\* reached the transport are 1, 2, ..., n.
NarrativeReturned == narrative.pc = "done" /\ narrative.chunks > 1

AllChunksDelivered ==
  NarrativeReturned => narrative.delivered = [k \in 1..narrative.chunks |-> k]

\* C39  Every FileQueuePiBridgeClient.request call eventually ends, with a
\* response, a Timeout or an Aborted error, provided time advances and the
\* status callback returns: a call that is in waitForResponse ends, even
\* if the worker never writes a response or removes the request without
\* answering. (The clock of the model stops at MaxTicks intervals: the
\* calls followed are those whose timeout falls before that.)
InWaitForResponse(id) ==
  /\ bcall[id].pc \in {"poll", "notifying"}
  /\ bcall[id].start + ClientTimeoutMs <= MaxTicks * PollIntervalMs

RequestEnded(id) ==
  /\ bcall[id].pc = "ended"
  /\ \/ bcall[id].outcome = "returned"
     \/ bcall[id].error \in {"BridgeTimeout", "BridgeAborted", "WorkerReportedError", "StatusCallbackError"}

RequestEventuallyEnds ==
  \A id \in CallIds : InWaitForResponse(id) ~> RequestEnded(id)

RequestEventuallyEndsWitness ==
  \E id \in CallIds :
    /\ bcall[id].pc = "ended"
    /\ bcall[id].error = "BridgeTimeout"
    /\ worker.accepted = {}
    /\ answered[id] = NoFile

\* C40  In the cumulative metrics snapshot, totalRuns = succeededRuns +
\* failedRuns + cancelledRuns holds after every finish, for any sequence of
\* runs in a single process starting from an absent or consistent metrics
\* file, and no counter ever decreases.
MetricsCounters == DOMAIN createEmptyMetrics

RunsAddUp(metrics) ==
  metrics.totalRuns = metrics.succeededRuns + metrics.failedRuns + metrics.cancelledRuns

MetricsStep ==
  LET before == [name \in MetricsCounters |-> OrZero(metricsFile, name)]
      after == [name \in MetricsCounters |-> OrZero(metricsFile', name)]
  IN /\ \A name \in MetricsCounters : after[name] >= before[name]
     /\ (obsCalls' = obsCalls + 1 /\ lastObs'.method = "finish") => RunsAddUp(after)

MetricsStayConsistent == [][MetricsStep]_vars

\* A process that found a file of two earlier runs has finished a failed
\* run that made a round trip.
MetricsStayConsistentWitness ==
  /\ lastObs.method = "finish"
  /\ lastObs.wasActive
  /\ metricsFile # NoFile
  /\ metricsFile.totalRuns = 3
  /\ metricsFile.failedRuns = 1
  /\ metricsFile.cancelledRuns = 1
  /\ metricsFile.succeededRuns = 1
  /\ metricsFile.totalRoundTrips = 4

====
